---- MODULE Spec2Model ----
(***************************************************************************)
(* Model of the WebJarvis agent control loop (src/src/agent/main_agent.py, *)
(* src/src/agent/agent_state.py) and of its context budgeting              *)
(* (src/src/context/manager.py, src/src/context/token_optimizer.py).       *)
(***************************************************************************)
EXTENDS Integers, Sequences, FiniteSets, TLC

\* ---------------------------------------------------------------- bounds
\* max_iterations is read from the environment (config.py:35); the model
\* runs the loop with a small ceiling.
MaxIterations == 3

\* ------------------------------------------------------------- utilities
Min(a, b) == IF a <= b THEN a ELSE b
Max(a, b) == IF a >= b THEN a ELSE b

\* Python's s[-n:] for n > 0
LastN(s, n) == IF Len(s) <= n THEN s ELSE SubSeq(s, Len(s) - n + 1, Len(s))
\* Python's s[:n] for n >= 0
FirstN(s, n) == IF Len(s) <= n THEN s ELSE SubSeq(s, 1, n)

Range(s) == {s[i] : i \in 1..Len(s)}

\* dict.get(key, default) on a function used as a dict
Get(d, key, default) == IF key \in DOMAIN d THEN d[key] ELSE default

EmptyDict == [k \in {} |-> 0]

\* ------------------------------------------------------------------ URLs
\* A URL is a sequence of one-character strings.
RECURSIVE IndexOf(_, _, _)
IndexOf(s, c, i) ==
    IF i > Len(s) THEN 0
    ELSE IF s[i] = c THEN i ELSE IndexOf(s, c, i + 1)

\* s.split(c)[0]
SplitHead(s, c) ==
    LET i == IndexOf(s, c, 1) IN IF i = 0 THEN s ELSE SubSeq(s, 1, i - 1)

RECURSIVE RStrip(_, _)
RStrip(s, c) ==
    IF Len(s) > 0 /\ s[Len(s)] = c THEN RStrip(SubSeq(s, 1, Len(s) - 1), c) ELSE s

\* the normalization without the cut at the fragment
NormalizeUrlKeepingFragment(url) == RStrip(SplitHead(url, "?"), "/")

\* url.split('?')[0].split('#')[0].rstrip('/')
NormalizeUrl(url) == RStrip(SplitHead(SplitHead(url, "?"), "#"), "/")

UrlA == <<"a">>
UrlB == <<"b", "/", "?", "q">>
NoUrl == <<>>

\* --------------------------------------------------------- AgentState
IDLE == "idle"
OBSERVING == "observing"
DECIDING == "deciding"
ACTING == "acting"
REFLECTING == "reflecting"
WAITING_USER == "waiting_user"
COMPLETED == "completed"
ERROR == "error"

AgentState ==
    {IDLE, OBSERVING, DECIDING, ACTING, REFLECTING, WAITING_USER, COMPLETED, ERROR}

\* ------------------------------------------------------------ free text
\* Free text (descriptions, queries) is a sequence of symbols; a symbol is a
\* one-character string or a whole word of the synonym table.
UpperCase == {"A", "B"}
Lower(c) == CASE c = "A" -> "a" [] c = "B" -> "b" [] OTHER -> c
Punctuation == {"?", ".", ",", "!", ";", ":"}

LowerAll(s) == [i \in 1..Len(s) |-> Lower(s[i])]

\* str.split(): the maximal runs of non-blank symbols
RECURSIVE SplitWords(_, _, _)
SplitWords(s, i, cur) ==
    IF i > Len(s) THEN (IF cur = <<>> THEN <<>> ELSE <<cur>>)
    ELSE IF s[i] = " "
         THEN (IF cur = <<>> THEN <<>> ELSE <<cur>>) \o SplitWords(s, i + 1, <<>>)
         ELSE SplitWords(s, i + 1, Append(cur, s[i]))

\* ' '.join(words)
RECURSIVE JoinWords(_)
JoinWords(ws) ==
    IF ws = <<>> THEN <<>>
    ELSE IF Len(ws) = 1 THEN ws[1]
    ELSE ws[1] \o <<" ">> \o JoinWords(Tail(ws))

\* str.rstrip('?.,!;:')
RECURSIVE RStripPunct(_)
RStripPunct(s) ==
    IF Len(s) > 0 /\ s[Len(s)] \in Punctuation
    THEN RStripPunct(SubSeq(s, 1, Len(s) - 1)) ELSE s

\* the entries of the synonym table that change a single word
Synonym(w) ==
    CASE w = <<"selectors">> -> <<"selector">>
      [] w = <<"identifier">> -> <<"selector">>
      [] w = <<"elements">> -> <<"element">>
      [] OTHER -> w

\* AgentStateManager._normalize_query; the result is kept as its word list
\* (the joined string has exactly these words, separated by one blank)
NormalizeQuery(query) ==
    LET lowered == LowerAll(query)
        joined == JoinWords(SplitWords(lowered, 1, <<>>))
        stripped == RStripPunct(joined)
        words == SplitWords(stripped, 1, <<>>)
    IN  [i \in 1..Len(words) |-> Synonym(words[i])]

\* AgentStateManager._are_queries_similar on two normalized queries
AreQueriesSimilar(query1, query2) ==
    LET words1 == Range(query1)
        words2 == Range(query2)
        common == words1 \cap words2
        larger == Max(Cardinality(words1), Cardinality(words2))
    IN  IF Cardinality(words1) < 3 \/ Cardinality(words2) < 3 THEN FALSE
        ELSE 10 * Cardinality(common) >= 7 * larger

\* ------------------------------------------------------- action records
NoText == <<>>

Params(description, element_description, url, query) ==
    [description |-> description, element_description |-> element_description,
     url |-> url, query |-> query]

\* verdicts of the cycle detector
NoLoop == [detected |-> FALSE, check |-> "none", action |-> "", repeats |-> 0]
LoopVerdict(check, action, repeats) ==
    [detected |-> TRUE, check |-> check, action |-> action, repeats |-> repeats]

\* _is_critical_action with no critical action
IsCriticalActionNever(action_name) == FALSE

\* AgentStateManager._is_critical_action
IsCriticalAction(action_name) == action_name \in {"navigate", "click_element"}

\* AgentStateManager._get_action_signature
GetActionSignature(a) ==
    LET has_new_elements ==
            \/ a.new_elements.new_modals
            \/ a.new_elements.new_forms
            \/ a.new_elements.new_interactive_elements
    IN  [signature |-> <<a.action, a.parameters>>,
         effective_page_changed |-> a.page_changed \/ has_new_elements,
         has_new_elements |-> has_new_elements,
         action_name |-> a.action]

\* the for loop of _check_consecutive_repeats from position i on, with
\* consecutive_repeats = reps and last_signature = the signature at i - 1
RECURSIVE ConsecutiveScan(_, _, _, _, _)
ConsecutiveScan(recent, i, reps, critical_threshold, normal_threshold) ==
    IF i > Len(recent) THEN NoLoop
    ELSE
      LET sig == GetActionSignature(recent[i])
          same == i > 1 /\ sig.signature = GetActionSignature(recent[i - 1]).signature
          still == ~sig.effective_page_changed /\ ~sig.has_new_elements
          threshold == IF IsCriticalAction(sig.action_name)
                       THEN critical_threshold ELSE normal_threshold
      IN  IF same /\ still
          THEN IF reps + 1 >= threshold
               THEN LoopVerdict("consecutive", sig.action_name, reps + 1)
               ELSE ConsecutiveScan(recent, i + 1, reps + 1,
                                    critical_threshold, normal_threshold)
          ELSE ConsecutiveScan(recent, i + 1, 1, critical_threshold, normal_threshold)

\* AgentStateManager._check_consecutive_repeats
CheckConsecutiveRepeats(recent, critical_threshold, normal_threshold) ==
    IF Len(recent) < 2 THEN NoLoop
    ELSE ConsecutiveScan(recent, 1, 1, critical_threshold, normal_threshold)

\* AgentStateManager._check_repeating_errors
CheckRepeatingErrors(recent, threshold) ==
    LET failed == SelectSeq(recent, LAMBDA a : ~a.result.success /\ a.result.error # "")
        errors == {failed[i].result.error : i \in 1..Len(failed)}
        names == {failed[i].action : i \in 1..Len(failed)}
        params == {failed[i].parameters : i \in 1..Len(failed)}
        anyChange == \E i \in 1..Len(failed) : failed[i].page_changed
    IN  IF /\ Len(failed) >= threshold
           /\ Cardinality(errors) <= 1
           /\ ~anyChange
           /\ Cardinality(names) <= 1
           /\ Cardinality(params) <= 1
        THEN LoopVerdict("errors", failed[1].action, Len(failed))
        ELSE NoLoop

\* the URL a navigate record is compared by
RecordUrl(a) == IF a.result.url # NoUrl THEN a.result.url ELSE a.parameters.url

\* AgentStateManager._check_repeating_urls
CheckRepeatingUrls(recent, threshold) ==
    LET navs == SelectSeq(recent, LAMBDA a : a.action = "navigate" /\ RecordUrl(a) # NoUrl)
        urls == {NormalizeUrl(RecordUrl(navs[i])) : i \in 1..Len(navs)}
        anyChange == \E i \in 1..Len(navs) : navs[i].page_changed
    IN  IF Len(navs) >= threshold /\ Cardinality(urls) <= 1 /\ ~anyChange
        THEN LoopVerdict("urls", "navigate", Len(navs))
        ELSE NoLoop

\* the description detect_loop builds for the A-B-A-B check
ActionDescription(a) ==
    IF a.parameters.description # NoText THEN <<a.action, a.parameters.description>>
    ELSE IF a.parameters.element_description # NoText
         THEN <<a.action, a.parameters.element_description>>
    ELSE IF a.parameters.url # NoUrl THEN <<a.action, NormalizeUrl(a.parameters.url)>>
    ELSE <<a.action>>

\* AgentStateManager._check_pattern_repetition: i ranges over
\* range(len(descriptions) - pattern_length * 2)
CheckPatternRepetition(descriptions) ==
    IF Len(descriptions) >= 4
       /\ \E i \in 1..(Len(descriptions) - 4) :
              SubSeq(descriptions, i, i + 1) = SubSeq(descriptions, i + 2, i + 3)
    THEN LoopVerdict("pattern", "", 2)
    ELSE NoLoop

\* check 5 of detect_loop: extract_text repeated with the same description
CheckExtractText(recent) ==
    LET last3 == LastN(recent, 3)
        ex == SelectSeq(last3, LAMBDA a : a.action = "extract_text")
        descriptions == {ex[i].parameters.description : i \in 1..Len(ex)}
        anyChange == \E i \in 1..Len(ex) : ex[i].page_changed
    IN  IF /\ Len(recent) >= 2
           /\ Len(ex) >= 2
           /\ Cardinality(descriptions) <= 1
           /\ ex[1].parameters.description # NoText
           /\ ~anyChange
        THEN LoopVerdict("extract_text", "extract_text", Len(ex))
        ELSE NoLoop

\* check 6 of detect_loop: query_dom repeated with equal or similar queries
CheckQueryDom(recent) ==
    LET last5 == LastN(recent, 5)
        qd == SelectSeq(last5, LAMBDA a : a.action = "query_dom")
        asked == SelectSeq(qd, LAMBDA a : a.parameters.query # NoText)
        normalized == [i \in 1..Len(asked) |-> NormalizeQuery(asked[i].parameters.query)]
        similar == \E i \in 1..Len(asked) : \E j \in (i + 1)..Len(asked) :
                       \/ normalized[i] = normalized[j]
                       \/ AreQueriesSimilar(normalized[i], normalized[j])
        anyChange == \E i \in 1..Len(qd) : qd[i].page_changed
    IN  IF /\ Len(recent) >= 2
           /\ Len(qd) >= 2
           /\ Len(asked) >= 2
           /\ similar
           /\ ~anyChange
        THEN LoopVerdict("query_dom", "query_dom", Len(qd))
        ELSE NoLoop

\* the lookback of detect_loop
Lookback == 4

\* AgentStateManager.detect_loop on an action history
DetectLoop(history) ==
    IF Len(history) < 2 THEN NoLoop
    ELSE
      LET recent == LastN(history, Lookback * 2)
          repeat_check == CheckConsecutiveRepeats(LastN(recent, 6), 2, 3)
          error_check == CheckRepeatingErrors(LastN(recent, Lookback), 2)
          url_check == CheckRepeatingUrls(LastN(recent, Lookback), 2)
          window == LastN(recent, Lookback)
          pattern_check ==
              CheckPatternRepetition([i \in 1..Len(window) |-> ActionDescription(window[i])])
          extract_check == CheckExtractText(recent)
          query_check == CheckQueryDom(recent)
      IN  IF repeat_check.detected THEN repeat_check
          ELSE IF error_check.detected THEN error_check
          ELSE IF url_check.detected THEN url_check
          ELSE IF pattern_check.detected THEN pattern_check
          ELSE IF extract_check.detected THEN extract_check
          ELSE query_check

\* ------------------------------------------------ browser and collaborators
\* What PageExtractor.get_page_state_hash / extract_page_info report of a page.
PageA ==
    [url |-> UrlA, title |-> "A", dom_hash |-> "h1", interactive_count |-> 10,
     visible_modal_count |-> 0, visible_form_count |-> 0]
PageB ==
    [url |-> UrlB, title |-> "B", dom_hash |-> "h2", interactive_count |-> 12,
     visible_modal_count |-> 1, visible_form_count |-> 0]
Pages == {PageA, PageB}

\* The decisions the oracle answers with in the loop specification.
NoParams == Params(NoText, NoText, NoUrl, NoText)
ClickSubmit == [action |-> "click_element", parameters |-> Params(<<"s">>, NoText, NoUrl, NoText)]
NavigateB == [action |-> "navigate", parameters |-> Params(NoText, NoText, UrlB, NoText)]
TaskComplete == [action |-> "task_complete", parameters |-> NoParams]
NoDecision == [action |-> "", parameters |-> NoParams]
ActionDecisions == {ClickSubmit, NavigateB}

TimeoutError == "Timeout 10000ms exceeded"

\* What ActionExecutor.execute_action returns.
ActionSucceeded(decision, after) ==
    [success |-> TRUE, error |-> "",
     url |-> IF decision.action = "navigate" THEN after.url ELSE NoUrl,
     scroll_changed |-> FALSE, error_suggestion |-> "", error_strategy |-> ""]
ActionFailed ==
    [success |-> FALSE, error |-> TimeoutError, url |-> NoUrl,
     scroll_changed |-> FALSE, error_suggestion |-> "", error_strategy |-> ""]

\* The outcomes of executing a decision on page before: the page the browser
\* shows afterwards and the result. A click may lead to any page, a navigation
\* leads to its target, every other and every failed action leaves the page.
BackendOutcomes(decision, before) ==
    LET reached ==
            CASE decision.action = "click_element" -> Pages
              [] decision.action = "navigate" ->
                     {p \in Pages : NormalizeUrl(p.url) = NormalizeUrl(decision.parameters.url)}
              [] OTHER -> {before}
    IN  {[after |-> p, result |-> ActionSucceeded(decision, p)] : p \in reached}
        \cup {[after |-> before, result |-> ActionFailed]}

\* ------------------------------------------------------------ the task
\* A task text is modelled by the matches of (\d+)\s+([^\n\r\.;,]*) in it, in
\* order: the number, and whether the first 50 characters after it hold one
\* of the application keywords.
Match(count, keyword) == [count |-> count, keyword |-> keyword]
Tasks ==
    { <<>>,
      <<Match(0, TRUE)>>,
      <<Match(5, FALSE), Match(3, TRUE), Match(2, TRUE)>> }

\* ContextManager._parse_task_requirements
RECURSIVE ParseTaskRequirements(_, _)
ParseTaskRequirements(matches, requirements) ==
    IF matches = <<>> THEN requirements
    ELSE LET m == Head(matches)
             next == IF m.keyword
                     THEN [k \in DOMAIN requirements \cup {"applications"} |->
                              IF k = "applications"
                              THEN Max(Get(requirements, "applications", 0), m.count)
                              ELSE requirements[k]]
                     ELSE requirements
         IN  ParseTaskRequirements(Tail(matches), next)

\* ContextManager.update_progress: the body is `pass`
UpdateProgress(counters, decision, action_result) == counters

\* can_complete_task without the comparison of the counters
CanCompleteTaskUnchecked(reqs, counters) == TRUE

\* ContextManager.can_complete_task
CanCompleteTask(reqs, counters) ==
    \A key \in DOMAIN reqs : ~(Get(counters, key, 0) < reqs[key])

\* ------------------------------------------------------ the context budget
\* Texts are modelled by their lengths. count_tokens is modelled as one token
\* per character of a variable text plus LabelTokens for the literal part of
\* a line or of a dictionary; the count of a concatenation is the sum of the
\* counts of its parts.
MaxElements == 3
LabelTokens == 4

MAX_CONTEXT_TOKENS == 3000
MAX_HISTORY_TOKENS == 2000
MAX_REQUEST_TOKENS == 25000

\* int(x * num / den) of Python: the quotient is truncated towards zero
IntScale(x, num, den) ==
    IF x >= 0 THEN (x * num) \div den ELSE -(((-x) * num) \div den)

\* sorted(s, key, reverse=True) with keys[i] the key of s[i]: the sort is stable
SortedDescending(s, keys) ==
    LET n == Len(s)
        rank(i) == Cardinality({j \in 1..n : \/ keys[j] > keys[i]
                                              \/ (keys[j] = keys[i] /\ j < i)})
    IN  [p \in 1..n |-> s[CHOOSE i \in 1..n : rank(i) = p - 1]]

\* The elements PageExtractor reports: selector (the position on the page),
\* type, length of the text, in_modal, in_form, whether there is an id, and
\* how many keywords of the task the text holds.
Element(type, text, in_modal, in_form, id, hits) ==
    [type |-> type, text |-> text, in_modal |-> in_modal, in_form |-> in_form,
     id |-> id, hits |-> hits]
ElementKinds ==
    { Element("div", 150, TRUE, FALSE, FALSE, 0),
      Element("link", 40, FALSE, FALSE, FALSE, 2),
      Element("div", 60, FALSE, FALSE, FALSE, 0),
      Element("input", 0, FALSE, TRUE, TRUE, 0) }
PageOf(kinds, preview, url) ==
    [url |-> url, title |-> 10, visible_text_preview |-> preview,
     interactive_elements |->
         [i \in 1..Len(kinds) |->
             [selector |-> i, type |-> kinds[i].type, text |-> kinds[i].text,
              in_modal |-> kinds[i].in_modal, in_form |-> kinds[i].in_form,
              id |-> kinds[i].id, hits |-> kinds[i].hits]]]
PageModels ==
    { PageOf(kinds, preview, url) :
          kinds \in UNION {[1..m -> ElementKinds] : m \in 0..MaxElements},
          preview \in {0, 600}, url \in {30, 800} }

\* the sum of a sequence of numbers
RECURSIVE Sum(_)
Sum(ns) == IF ns = <<>> THEN 0 ELSE Head(ns) + Sum(Tail(ns))

\* the sort key of _optimize_elements (the input carries no relevance_score)
SortKey(x, task_type) ==
    LET boost ==
            CASE task_type = "form" ->
                     IF x.in_form \/ x.type \in {"button", "input", "select", "textarea"}
                     THEN 20 ELSE 0
              [] task_type = "navigation" -> IF x.type \in {"link", "button"} THEN 15 ELSE 0
              [] task_type = "reading" -> IF x.text > 50 THEN 10 ELSE 0
              [] OTHER -> 0
        bit(b) == IF b THEN 1 ELSE 0
    IN  (((boost * 2 + bit(x.in_modal)) * 2 + bit(x.in_form)) * 2 + bit(x.id)) * 2
        + bit(x.text > 0)

\* the text_limit of _optimize_elements
TextLimit(task_type, is_in_modal, is_in_form, is_high_priority, remaining_tokens) ==
    CASE task_type = "form" ->
             IF is_in_modal /\ remaining_tokens > 200 THEN 120
             ELSE IF is_in_modal THEN 80
             ELSE IF is_in_form /\ remaining_tokens > 200 THEN 80
             ELSE IF is_high_priority /\ remaining_tokens > 200 THEN 60
             ELSE IF is_high_priority /\ remaining_tokens > 100 THEN 40
             ELSE 20
      [] task_type = "navigation" ->
             IF is_in_modal /\ remaining_tokens > 200 THEN 80
             ELSE IF is_in_modal THEN 60
             ELSE IF is_high_priority /\ remaining_tokens > 200 THEN 50
             ELSE 30
      [] OTHER ->
             IF is_in_modal /\ remaining_tokens > 200 THEN 100
             ELSE IF is_in_modal THEN 70
             ELSE IF is_in_form /\ remaining_tokens > 200 THEN 70
             ELSE IF is_high_priority /\ remaining_tokens > 200 THEN 60
             ELSE IF is_high_priority /\ remaining_tokens > 100 THEN 40
             ELSE IF remaining_tokens > 50 THEN 25
             ELSE 15

\* count_tokens(str(compact_element))
CompactTokens(c) ==
    LabelTokens + c.text + (IF c.id THEN 1 ELSE 0) + (IF c.in_modal THEN 1 ELSE 0)
    + (IF c.in_form THEN 1 ELSE 0)

\* the for loop of _optimize_elements over the sorted elements
RECURSIVE OptimizeScan(_, _, _, _, _)
OptimizeScan(sorted, optimized, current_tokens, max_tokens, task_type) ==
    IF sorted = <<>> THEN optimized
    ELSE
      LET element == Head(sorted)
          relevance_score == 0
          is_high_priority ==
              \/ element.in_modal \/ element.in_form \/ relevance_score > 10
              \/ element.id \/ element.type \in {"button", "link"}
          remaining_tokens == max_tokens - current_tokens
          text_limit == TextLimit(task_type, element.in_modal, element.in_form,
                                  is_high_priority, remaining_tokens)
          compact == [type |-> element.type, selector |-> element.selector,
                      in_modal |-> element.in_modal, in_form |-> element.in_form,
                      text |-> Min(element.text, text_limit), id |-> element.id,
                      hits |-> element.hits, scored |-> FALSE, relevance_score |-> 0]
          shorter == [compact EXCEPT !.text = Min(compact.text, 20)]
          keep(c) == OptimizeScan(Tail(sorted), Append(optimized, c),
                                  current_tokens + CompactTokens(c), max_tokens, task_type)
          skip == OptimizeScan(Tail(sorted), optimized, current_tokens, max_tokens,
                               task_type)
      IN  IF current_tokens + CompactTokens(compact) <= max_tokens THEN keep(compact)
          ELSE IF is_high_priority
               THEN IF current_tokens + CompactTokens(shorter) <= max_tokens
                    THEN keep(shorter)
                    ELSE IF element.in_modal THEN keep(shorter)
                    ELSE IF relevance_score >= 5 THEN keep(shorter)
                    ELSE skip
               ELSE skip

\* TokenOptimizer._optimize_elements
OptimizeElements(elements, max_tokens, task_type) ==
    LET group(test(_)) == SelectSeq(elements, test)
        sorted(g) == SortedDescending(g, [i \in 1..Len(g) |-> SortKey(g[i], task_type)])
        modal_elements == group(LAMBDA e : e.in_modal)
        form_elements == group(LAMBDA e : e.in_form /\ ~e.in_modal)
        other_elements == group(LAMBDA e : ~e.in_modal /\ ~e.in_form)
    IN  OptimizeScan(sorted(modal_elements) \o sorted(form_elements)
                         \o sorted(other_elements),
                     <<>>, 0, max_tokens, task_type)

\* TokenOptimizer.optimize_page_info (a page without location_context and
\* visible_modals entries)
OptimizePageInfo(info, max_tokens, task_type) ==
    LET reserved_tokens == Max(500, IntScale(max_tokens, 2, 10))
        available_tokens == max_tokens - reserved_tokens
        elements_tokens == IntScale(available_tokens, 7, 10)
        optimized_elements ==
            OptimizeElements(info.interactive_elements, elements_tokens, task_type)
        used_tokens == LabelTokens
            + Sum([i \in 1..Len(optimized_elements) |-> CompactTokens(optimized_elements[i])])
        text_tokens == Max(100, available_tokens - used_tokens)
    IN  [url |-> info.url, title |-> info.title,
         interactive_elements |-> optimized_elements,
         visible_text_preview |-> Min(info.visible_text_preview, text_tokens)]

\* The tasks of the context specification: whether a task is set, the task
\* type prepare_context derives from it, and the number of its keywords
\* (each longer than three characters).
ContextTask(present, task_type, keywords) ==
    [present |-> present, task_type |-> task_type, keywords |-> keywords]
ContextTasks ==
    { ContextTask(FALSE, "none", 0), ContextTask(TRUE, "none", 2),
      ContextTask(TRUE, "form", 2), ContextTask(TRUE, "navigation", 2) }

\* ContextExtractor._calculate_relevance_score of a compact element: 3 and 1
\* for each keyword in the text, 1 for each keyword when the text is empty
\* (the empty text is in every keyword), 1 for an id, 1 for visible (default)
RelevanceScore(e, task) ==
    4 * Min(e.hits, task.keywords) + (IF e.text = 0 THEN task.keywords ELSE 0)
    + (IF e.id THEN 1 ELSE 0) + 1

\* ContextExtractor.extract_relevant_elements
ExtractRelevantElements(elements, task) ==
    LET scored == [i \in 1..Len(elements) |->
                      [elements[i] EXCEPT !.scored = TRUE,
                                          !.relevance_score = RelevanceScore(elements[i], task)]]
        positive == SelectSeq(scored, LAMBDA e : e.relevance_score > 0)
    IN  SortedDescending(positive, [i \in 1..Len(positive) |-> positive[i].relevance_score])

\* count_tokens(format_context(page_info, history))
FormatContextTokens(info, shown_history) ==
    LET elements == info.interactive_elements
        line(e) == LabelTokens + e.text + (IF e.scored THEN 1 ELSE 0)
    IN  2 * LabelTokens + info.url + info.title
        + (IF Len(elements) = 0 THEN 0
           ELSE LabelTokens
                + (IF \E i \in 1..Len(elements) : elements[i].in_form
                   THEN LabelTokens ELSE 0)
                + (IF \E i \in 1..Len(elements) : ~elements[i].in_form
                   THEN LabelTokens ELSE 0)
                + Sum([i \in 1..Len(elements) |-> line(elements[i])]))
        + (IF info.visible_text_preview > 0
           THEN LabelTokens + Min(info.visible_text_preview, 300) ELSE 0)
        + (IF Len(shown_history) = 0 THEN 0
           ELSE LabelTokens + LabelTokens * Len(LastN(shown_history, 5)))

\* prepare_context up to the first format_context: the optimized page
\* information with the relevant elements
FirstContext(page_model, max_tokens, task) ==
    LET optimized == OptimizePageInfo(page_model, max_tokens, task.task_type)
        relevant_elements ==
            IF task.present THEN ExtractRelevantElements(optimized.interactive_elements, task)
            ELSE <<>>
    IN  IF Len(relevant_elements) > 0
        THEN [optimized EXCEPT !.interactive_elements = relevant_elements]
        ELSE optimized

\* the elements with relevance_score > 5
ImportantElements(elements) == SelectSeq(elements, LAMBDA e : e.relevance_score > 5)

\* prepare_context, the first reduction: with reduction_factor > 0.8 the
\* texts are cut to 30 characters, else the less important elements beyond
\* keep_count are dropped
ReducedContext(first, max_tokens, context_tokens) ==
    LET elements == first.interactive_elements
        less_important_elements == SelectSeq(elements, LAMBDA e : e.relevance_score <= 5)
        keep_count ==
            Max(10, (Len(less_important_elements) * max_tokens) \div context_tokens)
    IN  IF 10 * max_tokens > 8 * context_tokens
        THEN [first EXCEPT !.interactive_elements =
                               [i \in 1..Len(elements) |->
                                   [elements[i] EXCEPT !.text = Min(elements[i].text, 30)]],
                           !.visible_text_preview = Min(first.visible_text_preview, 500)]
        ELSE [first EXCEPT !.interactive_elements =
                               ImportantElements(elements)
                               \o FirstN(less_important_elements, keep_count),
                           !.visible_text_preview = Min(first.visible_text_preview, 200)]

\* prepare_context, the second reduction: important_elements[:15] (they are
\* the important ones among the reduced elements) or, there being none, the
\* first 15 elements; no preview
LastContext(reduced) ==
    LET current_elements == reduced.interactive_elements
        important_elements ==
            IF Len(ImportantElements(current_elements)) > 0
            THEN ImportantElements(current_elements)
            ELSE FirstN(current_elements, 15)
    IN  [reduced EXCEPT !.interactive_elements = FirstN(important_elements, 15),
                        !.visible_text_preview = 0]

\* the combined_history of prepare_context
CombinedHistory(hist) ==
    LET important_history ==
            SelectSeq(hist, LAMBDA h : \/ h.action = <<"navigate">>
                                       \/ (h.action = <<"click_element">> /\ h.success)
                                       \/ h.action = <<"task_complete">>)
    IN  important_history
        \o SelectSeq(LastN(hist, 3), LAMBDA h : h \notin Range(important_history))

\* a context: what it was formatted from, and its estimate
Context(info, shown_history, stage, max_tokens) ==
    [interactive_elements |-> info.interactive_elements,
     visible_text_preview |-> info.visible_text_preview,
     history |-> shown_history, stage |-> stage, max_tokens |-> max_tokens,
     tokens |-> FormatContextTokens(info, shown_history)]

\* prepare_context from its first context on: returned as it is when it
\* fits, else reduced once, else reduced twice; the last context is returned
\* without being measured against max_tokens
ReduceToFit(first, context_tokens, max_tokens, hist) ==
    IF context_tokens <= max_tokens THEN Context(first, hist, "fits", max_tokens)
    ELSE IF FormatContextTokens(ReducedContext(first, max_tokens, context_tokens),
                                LastN(CombinedHistory(hist), 5)) <= max_tokens
         THEN Context(ReducedContext(first, max_tokens, context_tokens),
                      LastN(CombinedHistory(hist), 5), "reduced", max_tokens)
         ELSE Context(LastContext(ReducedContext(first, max_tokens, context_tokens)),
                      LastN(CombinedHistory(hist), 2), "important_only", max_tokens)

\* ContextManager.prepare_context; max_tokens_given = 0 stands for None
PrepareContext(page_model, max_tokens_given, task, hist) ==
    LET max_tokens == IF max_tokens_given = 0 THEN MAX_CONTEXT_TOKENS ELSE max_tokens_given
    IN  CHOOSE returned \in
            { ReduceToFit(first, FormatContextTokens(first, hist), max_tokens, hist) :
                  first \in {FirstContext(page_model, max_tokens, task)} } : TRUE

\* ------------------------------------------------------------- the state
VARIABLES
    pc,                 \* where execute_task is: idle, loop, a suspension point, returned
    state,              \* AgentStateManager.state
    action_history,     \* AgentStateManager.action_history
    visited_urls,       \* AgentStateManager.visited_urls
    iteration_count,    \* AgentStateManager.iteration_count
    last_error,         \* AgentStateManager.last_error
    current_iteration,  \* MainAgent.current_iteration
    should_stop,        \* MainAgent._should_stop
    requirements,       \* ContextManager.requirements
    progress_counters,  \* ContextManager.progress_counters
    history,            \* ContextManager.history
    page,               \* the page the browser shows
    page_info,          \* the page_info of the current pass (Observe)
    decision,           \* the decision of the current pass
    result,             \* what execute_task returned
    oracle_calls,       \* calls of _decide_action and check_task_completion so far
    backend_calls,      \* calls of _execute_action so far
    ctx_pc,             \* where the context specification is
    ctx_input,          \* the page model, max_tokens and task given to prepare_context
    context,            \* the context prepare_context returned
    request,            \* the request _decide_action assembled
    mgr_pc,             \* where the state manager specification is
    last_verdict,       \* what detect_loop returned last
    query_dom_history,  \* AgentStateManager.query_dom_history
    subagent_calls,     \* calls of SubAgentManager.query_dom so far
    query_result,       \* what _query_dom returned last
    restarted,          \* whether execute_task was called a second time
    reentered,          \* whether execute_task was called while it was suspended
    validation_cache,   \* ActionResultValidator._validation_cache, in insertion order
    validation,         \* the last call of validate_action_result and what it returned
    error_solution_cache, \* ErrorHandler._error_solution_cache, in insertion order
    error_analysis,     \* the last call of handle_error and what it returned
    untrimmed,          \* ContextManager.history as _trim_history found it last
    completion_check    \* the oracle's reply and the completion_check of the pass

loopVars ==
    <<pc, state, action_history, visited_urls, iteration_count, last_error,
      current_iteration, should_stop, requirements, progress_counters, history,
      page, page_info, decision, result, oracle_calls, backend_calls>>
ctxVars == <<ctx_pc, ctx_input, context, request>>
qryVars == <<query_dom_history, subagent_calls, query_result, restarted, reentered>>
svcVars == <<validation_cache, validation, error_solution_cache, error_analysis, untrimmed>>
mgrVars == <<mgr_pc, last_verdict, qryVars, svcVars, completion_check>>
vars == <<loopVars, ctxVars, mgrVars>>

\* validate_action_result and handle_error were not called yet
NoValidation == [called |-> FALSE]
NoAnalysis == [called |-> FALSE]

\* check_task_completion was not called in the pass
NoCheck == [reply |-> "none", is_completed |-> FALSE]

\* no query_dom was executed yet
NoAnswer == [success |-> FALSE, from_cache |-> FALSE, answer |-> ""]

NoResult == [success |-> FALSE, reason |-> "running", loop_info |-> NoLoop, iteration |-> 0]
Result(success, reason, loop_info, iteration) ==
    [success |-> success, reason |-> reason, loop_info |-> loop_info, iteration |-> iteration]

\* the points where execute_task is suspended in a collaborator call
SuspensionPoints == {"observe", "decide", "completion_check", "act", "reflect_error", "loop"}

NoInput == [page_model |-> PageOf(<<>>, 0, 0), max_tokens |-> 0,
            task |-> ContextTask(FALSE, "none", 0)]
NoContext == [interactive_elements |-> <<>>, visible_text_preview |-> 0, history |-> <<>>,
              stage |-> "none", max_tokens |-> 0, tokens |-> 0]
NoRequest == [size |-> 0, rederived |-> FALSE, sent |-> FALSE, success |-> FALSE]

\* MainAgent.__init__ and the constructors it calls, but for the history of
\* the context manager
InitAgent ==
    /\ pc = "idle"
    /\ state = IDLE
    /\ action_history = <<>>
    /\ visited_urls = <<>>
    /\ iteration_count = 0
    /\ last_error = ""
    /\ current_iteration = 0
    /\ should_stop = FALSE
    /\ requirements = EmptyDict
    /\ progress_counters = EmptyDict
    /\ page = PageA
    /\ page_info = PageA
    /\ decision = NoDecision
    /\ result = NoResult
    /\ oracle_calls = 0
    /\ backend_calls = 0
    /\ context = NoContext
    /\ request = NoRequest
    /\ mgr_pc = "idle"
    /\ last_verdict = NoLoop
    /\ query_dom_history = <<>>
    /\ subagent_calls = 0
    /\ query_result = NoAnswer
    /\ restarted = FALSE
    /\ reentered = FALSE
    /\ validation_cache = <<>>
    /\ validation = NoValidation
    /\ error_solution_cache = <<>>
    /\ error_analysis = NoAnalysis
    /\ untrimmed = <<>>
    /\ completion_check = NoCheck

\* the agent as constructed, before execute_task
Init ==
    /\ InitAgent
    /\ history = <<>>
    /\ ctx_pc = "off"
    /\ ctx_input = NoInput

\* AgentStateManager.add_visited_url
AddVisitedUrl(urls, url) ==
    IF NormalizeUrl(url) \in Range(urls) THEN urls ELSE Append(urls, NormalizeUrl(url))

\* AgentStateManager.is_url_visited
IsUrlVisited(urls, url) == NormalizeUrl(url) \in Range(urls)

\* count_tokens(str(record)) of a history record: the result says how long
\* its text is; the results of the loop specification are short
RecordTokens(action_result) == Get(action_result, "tokens", LabelTokens)

\* count_tokens(str(self.history)), as the sum over the records
HistoryTokens(h) == Sum([i \in 1..Len(h) |-> h[i].tokens])

\* Python's s[-k:] for k >= 0: s[-0:] is the whole list
LastSlice(s, k) == IF k = 0 THEN s ELSE LastN(s, k)

\* the classification of _trim_history: the action of a record is its whole
\* text, so a label with parameters equals none of the names
IsImportant(r) ==
    \/ r.action = <<"navigate">>
    \/ (r.action = <<"click_element">> /\ r.success)
    \/ r.action = <<"task_complete">>
    \/ (r.action = <<"extract_text">> /\ r.success)
IsLessImportant(r) ==
    \/ r.action = <<"scroll">>
    \/ r.action = <<"wait_for_element">>
    \/ ~r.success

\* important_actions and less_important_actions of _trim_history; a record
\* of neither class goes to the important ones
ImportantActions(h) == SelectSeq(h, LAMBDA r : IsImportant(r) \/ ~IsLessImportant(r))
LessImportantActions(h) == SelectSeq(h, LAMBDA r : ~IsImportant(r) /\ IsLessImportant(r))

\* the while loop of _trim_history: the keep_important it ends with
RECURSIVE CompressImportant(_, _, _, _)
CompressImportant(important_actions, kept_less, keep_important, new_history_tokens) ==
    IF new_history_tokens > MAX_HISTORY_TOKENS /\ keep_important > 0
    THEN CompressImportant(important_actions, kept_less, keep_important - 1,
                           HistoryTokens(LastSlice(important_actions, keep_important - 1)
                                         \o kept_less))
    ELSE keep_important

\* ContextManager._trim_history
TrimHistory(h) ==
    IF HistoryTokens(h) <= MAX_HISTORY_TOKENS THEN h
    ELSE
      LET important_actions == ImportantActions(h)
          less_important_actions == LessImportantActions(h)
          keep_less_important == Min(Len(less_important_actions), 5)
          kept_less == LastSlice(less_important_actions, keep_less_important)
          new_history == important_actions \o kept_less
          keep_important ==
              CompressImportant(important_actions, kept_less, Len(important_actions),
                                HistoryTokens(new_history))
      IN  IF HistoryTokens(new_history) <= MAX_HISTORY_TOKENS THEN new_history
          ELSE IF keep_important > 0
               THEN LastSlice(important_actions, keep_important) \o kept_less
               ELSE LastSlice(h, Len(h) \div 2)

\* the record add_to_history appends; the action is a text, here the tuple
\* of its parts
HistoryRecord(action, action_result) ==
    [action |-> action, success |-> action_result.success,
     tokens |-> RecordTokens(action_result)]

\* ContextManager.add_to_history
AddToHistory(h, action, action_result) ==
    TrimHistory(Append(h, HistoryRecord(action, action_result)))

RejectedCompletion == [success |-> FALSE]

\* ------------------------------------------------------------ execute_task
\* The page diff execute_task computes after an action (main_agent.py 318-356).
PageDiff(action_name, info, before, after, action_result) ==
    LET url_changed == after.url # info.url
        title_changed == after.title # info.title
        dom_changed ==
            IF action_name \in {"navigate", "click_element", "reload_page"}
            THEN after.dom_hash # before.dom_hash
            ELSE IF after.dom_hash # "" /\ before.dom_hash # ""
                 THEN after.dom_hash # before.dom_hash
                 ELSE FALSE
        new_modals == after.visible_modal_count > before.visible_modal_count
        new_forms == after.visible_form_count > before.visible_form_count
        new_interactive ==
            /\ after.interactive_count > before.interactive_count
            /\ \/ before.interactive_count = 0
               \/ 10 * (after.interactive_count - before.interactive_count)
                      > before.interactive_count
        scroll_position_changed == action_name = "scroll" /\ action_result.scroll_changed
    IN  [page_changed |->
             \/ url_changed \/ title_changed \/ dom_changed \/ new_modals \/ new_forms
             \/ (action_name = "scroll" /\ (scroll_position_changed \/ new_interactive)),
         url_before |-> info.url, url_after |-> after.url,
         title_before |-> info.title, title_after |-> after.title,
         dom_changed |-> dom_changed,
         new_elements |-> [new_modals |-> new_modals, new_forms |-> new_forms,
                           new_interactive_elements |-> new_interactive]]

\* The action_record execute_task appends (main_agent.py 453-464).
ActionRecord(d, action_result, diff) ==
    [action |-> d.action, parameters |-> d.parameters, result |-> action_result,
     page_changed |-> diff.page_changed,
     url_before |-> diff.url_before, url_after |-> diff.url_after,
     title_before |-> diff.title_before, title_after |-> diff.title_after,
     dom_changed |-> diff.dom_changed, new_elements |-> diff.new_elements]

\* AgentStateManager.add_action on the history: the record is appended, the
\* history is never cut
AppendActionKeepingLast(h, action) == <<action>>
AppendAction(h, action) == Append(h, action)

\* What the oracle does when check_task_completion asks it: it answers with
\* the structured verdict (completed or not), the call raises, or it answers
\* with a text that is no structured verdict, with or without one of the
\* words the fallback looks for.
CompletionReplies ==
    {"completed", "not completed", "raises", "text with done", "text"}

\* ActionResultValidator.check_task_completion
CheckTaskCompletion(reply) ==
    [reply |-> reply, is_completed |-> reply \in {"completed", "text with done"}]

\* execute_task up to the loop: set_task of the state manager and of the
\* context manager, the iteration counter and the stop flag are reset.
StartSession ==
    /\ \E task \in Tasks :
          requirements' = ParseTaskRequirements(task, EmptyDict)
    /\ state' = OBSERVING
    /\ action_history' = <<>>
    /\ visited_urls' = <<>>
    /\ query_dom_history' = <<>>
    /\ iteration_count' = 0
    /\ last_error' = ""
    /\ progress_counters' = EmptyDict
    /\ current_iteration' = 0
    /\ should_stop' = FALSE
    /\ pc' = "loop"
    /\ UNCHANGED <<history, page, page_info, decision, result, oracle_calls, backend_calls>>
    /\ UNCHANGED <<ctxVars, mgr_pc, last_verdict, subagent_calls, query_result, svcVars,
                   completion_check>>

\* execute_task on the agent as constructed
ExecuteTask ==
    /\ pc = "idle"
    /\ StartSession
    /\ UNCHANGED <<restarted, reentered>>

\* execute_task without a started browser returns before touching any state.
ExecuteTaskNoBrowser ==
    /\ pc = "idle"
    /\ result' = Result(FALSE, "no_browser", NoLoop, 0)
    /\ pc' = "returned"
    /\ UNCHANGED <<state, action_history, visited_urls, iteration_count, last_error,
                   current_iteration, should_stop, requirements, progress_counters,
                   history, page, page_info, decision, oracle_calls, backend_calls>>
    /\ UNCHANGED <<ctxVars, mgrVars>>

\* the while condition with the ceiling off by one
LoopConditionOffByOne == current_iteration <= MaxIterations /\ ~should_stop

\* the while condition without the stop flag
LoopConditionIgnoringStop == current_iteration < MaxIterations

\* the while condition of the loop
LoopCondition == current_iteration < MaxIterations /\ ~should_stop

\* A pass starts: the counter is incremented, the status is Observing, and
\* the controller is suspended in extract_page_info.
BeginPass ==
    /\ pc = "loop"
    /\ LoopCondition
    /\ current_iteration' = current_iteration + 1
    /\ state' = OBSERVING
    /\ pc' = "observe"
    /\ UNCHANGED <<action_history, visited_urls, iteration_count, last_error, should_stop,
                   requirements, progress_counters, history, page, page_info, decision,
                   result, oracle_calls, backend_calls>>
    /\ UNCHANGED <<ctxVars, mgr_pc, last_verdict, qryVars, svcVars>>
    /\ completion_check' = NoCheck

\* The loop ends: on the stop flag, or on the iteration ceiling.
ExitLoop ==
    /\ pc = "loop"
    /\ ~LoopCondition
    /\ result' = IF should_stop
                 THEN Result(FALSE, "interrupted", NoLoop, current_iteration)
                 ELSE Result(FALSE, "max_iterations", NoLoop, current_iteration)
    /\ pc' = "returned"
    /\ UNCHANGED <<state, action_history, visited_urls, iteration_count, last_error,
                   current_iteration, should_stop, requirements, progress_counters,
                   history, page, page_info, decision, oracle_calls, backend_calls>>
    /\ UNCHANGED <<ctxVars, mgrVars>>

\* Observe, when detect_loop gives a verdict: execute_task returns it.
ObserveLoopDetected ==
    /\ pc = "observe"
    /\ \E loop_info \in {DetectLoop(action_history)} :
          /\ loop_info.detected
          /\ result' = Result(FALSE, "loop", loop_info, current_iteration)
    /\ page_info' = page
    /\ visited_urls' = IF page.url # NoUrl THEN AddVisitedUrl(visited_urls, page.url)
                       ELSE visited_urls
    /\ pc' = "returned"
    /\ UNCHANGED <<state, action_history, iteration_count, last_error, current_iteration,
                   should_stop, requirements, progress_counters, history, page, decision,
                   oracle_calls, backend_calls>>
    /\ UNCHANGED <<ctxVars, mgrVars>>

\* Observe going on to Decide whatever detect_loop says
ObserveProceedDespiteVerdict ==
    /\ pc = "observe"
    /\ page_info' = page
    /\ visited_urls' = IF page.url # NoUrl THEN AddVisitedUrl(visited_urls, page.url)
                       ELSE visited_urls
    /\ state' = DECIDING
    /\ oracle_calls' = oracle_calls + 1
    /\ pc' = "decide"
    /\ UNCHANGED <<action_history, iteration_count, last_error, current_iteration,
                   should_stop, requirements, progress_counters, history, page, decision,
                   result, backend_calls>>
    /\ UNCHANGED <<ctxVars, mgrVars>>

\* Observe without a verdict: the context is prepared, the status becomes
\* Deciding and the controller is suspended in _decide_action.
ObserveProceed ==
    /\ pc = "observe"
    /\ \E loop_info \in {DetectLoop(action_history)} : ~loop_info.detected
    /\ page_info' = page
    /\ visited_urls' = IF page.url # NoUrl THEN AddVisitedUrl(visited_urls, page.url)
                       ELSE visited_urls
    /\ state' = DECIDING
    /\ oracle_calls' = oracle_calls + 1
    /\ pc' = "decide"
    /\ UNCHANGED <<action_history, iteration_count, last_error, current_iteration,
                   should_stop, requirements, progress_counters, history, page, decision,
                   result, backend_calls>>
    /\ UNCHANGED <<ctxVars, mgrVars>>

\* _decide_action returned success = False.
DecideFails ==
    /\ pc = "decide"
    /\ result' = Result(FALSE, "decision_failed", NoLoop, current_iteration)
    /\ pc' = "returned"
    /\ UNCHANGED <<state, action_history, visited_urls, iteration_count, last_error,
                   current_iteration, should_stop, requirements, progress_counters,
                   history, page, page_info, decision, oracle_calls, backend_calls>>
    /\ UNCHANGED <<ctxVars, mgrVars>>

\* The decision is task_complete and a requirement is unmet: the completion
\* is rejected and the loop continues.
CompletionRejectedByRequirements ==
    /\ pc = "decide"
    /\ ~CanCompleteTask(requirements, progress_counters)
    /\ decision' = TaskComplete
    /\ history' = AddToHistory(history, <<"task_complete_rejected">>, RejectedCompletion)
    /\ pc' = "loop"
    /\ UNCHANGED <<state, action_history, visited_urls, iteration_count, last_error,
                   current_iteration, should_stop, requirements, progress_counters,
                   page, page_info, result, oracle_calls, backend_calls>>
    /\ UNCHANGED <<ctxVars, mgrVars>>

\* The decision is task_complete and the requirements are met: the
\* controller is suspended in check_task_completion.
CompletionCheckStarts ==
    /\ pc = "decide"
    /\ CanCompleteTask(requirements, progress_counters)
    /\ decision' = TaskComplete
    /\ oracle_calls' = oracle_calls + 1
    /\ pc' = "completion_check"
    /\ UNCHANGED <<state, action_history, visited_urls, iteration_count, last_error,
                   current_iteration, should_stop, requirements, progress_counters,
                   history, page, page_info, result, backend_calls>>
    /\ UNCHANGED <<ctxVars, mgrVars>>

\* check_task_completion answered is_completed = False.
CompletionRejectedByCheck ==
    /\ pc = "completion_check"
    /\ \E reply \in CompletionReplies :
          /\ ~CheckTaskCompletion(reply).is_completed
          /\ completion_check' = CheckTaskCompletion(reply)
    /\ history' = AddToHistory(history, <<"task_complete_rejected">>, RejectedCompletion)
    /\ pc' = "loop"
    /\ UNCHANGED <<state, action_history, visited_urls, iteration_count, last_error,
                   current_iteration, should_stop, requirements, progress_counters,
                   page, page_info, decision, result, oracle_calls, backend_calls>>
    /\ UNCHANGED <<ctxVars, mgr_pc, last_verdict, qryVars, svcVars>>

\* check_task_completion answered is_completed = True: the session is
\* Completed.
CompletionAccepted ==
    /\ pc = "completion_check"
    /\ \E reply \in CompletionReplies :
          /\ CheckTaskCompletion(reply).is_completed
          /\ completion_check' = CheckTaskCompletion(reply)
    /\ state' = COMPLETED
    /\ result' = Result(TRUE, "completed", NoLoop, current_iteration)
    /\ pc' = "returned"
    /\ UNCHANGED <<action_history, visited_urls, iteration_count, last_error,
                   current_iteration, should_stop, requirements, progress_counters,
                   history, page, page_info, decision, oracle_calls, backend_calls>>
    /\ UNCHANGED <<ctxVars, mgr_pc, last_verdict, qryVars, svcVars>>

\* The decision is an action: the status becomes Acting and the controller is
\* suspended in the calls of the Act phase.
ActStarts ==
    /\ pc = "decide"
    /\ \E d \in ActionDecisions : decision' = d
    /\ state' = ACTING
    /\ backend_calls' = backend_calls + 1
    /\ pc' = "act"
    /\ UNCHANGED <<action_history, visited_urls, iteration_count, last_error,
                   current_iteration, should_stop, requirements, progress_counters,
                   history, page, page_info, result, oracle_calls>>
    /\ UNCHANGED <<ctxVars, mgrVars>>

\* The calls of the Act phase returned: the diff is computed, the record is
\* appended (add_action), a successful navigation is tracked, the context
\* history and the progress are updated, and the status becomes Reflecting.
\* A failed action suspends the controller in ErrorHandler.handle_error.
ActReturns ==
    /\ pc = "act"
    /\ \E outcome \in BackendOutcomes(decision, page) :
          LET after == outcome.after
              action_result == outcome.result
              diff == PageDiff(decision.action, page_info, page, after, action_result)
          IN  /\ page' = after
              /\ action_history' =
                     AppendAction(action_history,
                                  ActionRecord(decision, action_result, diff))
              /\ iteration_count' = iteration_count + 1
              /\ visited_urls' =
                     IF decision.action = "navigate" /\ action_result.success
                        /\ action_result.url # NoUrl
                     THEN AddVisitedUrl(visited_urls, action_result.url)
                     ELSE visited_urls
              /\ history' = AddToHistory(history, <<decision.action, decision.parameters>>,
                                         action_result)
              /\ progress_counters' =
                     IF action_result.success
                     THEN UpdateProgress(progress_counters, decision, action_result)
                     ELSE progress_counters
              /\ pc' = IF action_result.success THEN "loop" ELSE "reflect_error"
    /\ state' = REFLECTING
    /\ UNCHANGED <<last_error, current_iteration, should_stop, requirements, page_info,
                   decision, result, oracle_calls, backend_calls>>
    /\ UNCHANGED <<ctxVars, mgrVars>>

\* ErrorHandler.handle_error on a timeout message: the heuristic answers, no
\* oracle is asked.
HandleError(error) ==
    IF error = TimeoutError
    THEN [suggestion |-> "wait and retry", strategy |-> "wait"]
    ELSE [suggestion |-> "", strategy |-> ""]

\* The advice is written into the result of the last record (the result
\* dictionary is the one the record holds).
Annotate(h, advice) ==
    IF advice.suggestion # ""
    THEN [h EXCEPT ![Len(h)].result.error_suggestion = advice.suggestion,
                   ![Len(h)].result.error_strategy = advice.strategy]
    ELSE h

\* handle_error returned: its advice is written into the result of the record
\* just appended; then detect_loop runs again.
ReflectOnError ==
    /\ pc = "reflect_error"
    /\ \E annotated \in {Annotate(action_history,
                                  HandleError(action_history[Len(action_history)].result.error))} :
       \E loop_info \in {DetectLoop(annotated)} :
          /\ action_history' = annotated
          /\ IF loop_info.detected
             THEN /\ result' = Result(FALSE, "loop", loop_info, current_iteration)
                  /\ pc' = "returned"
             ELSE /\ result' = result
                  /\ pc' = "loop"
    /\ UNCHANGED <<state, visited_urls, iteration_count, last_error, current_iteration,
                   should_stop, requirements, progress_counters, history, page, page_info,
                   decision, oracle_calls, backend_calls>>
    /\ UNCHANGED <<ctxVars, mgrVars>>

\* A collaborator call of Observe or Act raised: the exception reaches the
\* handler of execute_task, which calls set_error.
CollaboratorRaises ==
    /\ pc \in {"observe", "act"}
    /\ state' = ERROR
    /\ last_error' = "exception"
    /\ result' = Result(FALSE, "exception", NoLoop, current_iteration)
    /\ pc' = "returned"
    /\ UNCHANGED <<action_history, visited_urls, iteration_count, current_iteration,
                   should_stop, requirements, progress_counters, history, page, page_info,
                   decision, oracle_calls, backend_calls>>
    /\ UNCHANGED <<ctxVars, mgrVars>>

\* KeyboardInterrupt reaches the handler of execute_task.
KeyboardInterrupt ==
    /\ pc \in SuspensionPoints
    /\ should_stop' = TRUE
    /\ result' = Result(FALSE, "interrupted", NoLoop, current_iteration)
    /\ pc' = "returned"
    /\ UNCHANGED <<state, action_history, visited_urls, iteration_count, last_error,
                   current_iteration, requirements, progress_counters, history, page,
                   page_info, decision, oracle_calls, backend_calls>>
    /\ UNCHANGED <<ctxVars, mgrVars>>

\* MainAgent.stop, called while execute_task is suspended.
Stop ==
    /\ pc \in SuspensionPoints
    /\ ~should_stop
    /\ should_stop' = TRUE
    /\ UNCHANGED <<pc, state, action_history, visited_urls, iteration_count, last_error,
                   current_iteration, requirements, progress_counters, history, page,
                   page_info, decision, result, oracle_calls, backend_calls>>
    /\ UNCHANGED <<ctxVars, mgrVars>>

\* the steps of execute_task itself
Controller ==
    \/ ExecuteTask \/ ExecuteTaskNoBrowser
    \/ BeginPass \/ ExitLoop
    \/ ObserveLoopDetected \/ ObserveProceed
    \/ DecideFails \/ CompletionRejectedByRequirements \/ CompletionCheckStarts
    \/ CompletionRejectedByCheck \/ CompletionAccepted
    \/ ActStarts \/ ActReturns \/ ReflectOnError
    \/ CollaboratorRaises

Next == Controller \/ KeyboardInterrupt \/ Stop

Spec == Init /\ [][Next]_vars

\* Every collaborator call returns and the event loop resumes the coroutine.
LiveSpec == Spec /\ WF_vars(Controller)

\* -------------------------------------------- the context specification
HistoryEntry(action, success) == [action |-> action, success |-> success]
Histories ==
    { <<>>,
      << HistoryEntry(<<"navigate">>, TRUE), HistoryEntry(<<"click_element">>, FALSE),
         HistoryEntry(<<"click_element">>, TRUE), HistoryEntry(<<"scroll">>, TRUE),
         HistoryEntry(<<"scroll">>, FALSE), HistoryEntry(<<"type_text">>, TRUE) >> }

\* the inputs of prepare_context; max_tokens 0 stands for None
ContextInputs ==
    [page_model : PageModels, max_tokens : {0, 100, 700}, task : ContextTasks]

ContextInit ==
    /\ InitAgent
    /\ history \in Histories
    /\ ctx_pc = "start"
    /\ ctx_input \in ContextInputs

\* prepare_context is called, as in Observe
PrepareContextCalled ==
    /\ ctx_pc = "start"
    /\ context' = PrepareContext(ctx_input.page_model, ctx_input.max_tokens,
                                 ctx_input.task, history)
    /\ ctx_pc' = "prepared"
    /\ UNCHANGED <<loopVars, ctx_input, request, mgrVars>>

\* _decide_action up to the call of the oracle: the request is estimated
\* from the system prompt, the tool definitions and the user message, which
\* is the context and what _build_user_message adds to it (the task text
\* among it).
DecideAction ==
    /\ ctx_pc = "prepared"
    /\ \E system_tokens \in {3000, 15000}, tools_tokens \in {10000},
          message_tokens \in {400, 13000} :
          LET request_size ==
                  system_tokens + (context.tokens + message_tokens) + tools_tokens
              available_for_context ==
                  MAX_REQUEST_TOKENS - tools_tokens - system_tokens - 500
          IN  IF request_size > MAX_REQUEST_TOKENS
              THEN IF available_for_context > 0
                   THEN \E rederived \in {PrepareContext(ctx_input.page_model,
                                                         available_for_context,
                                                         ctx_input.task, history)} :
                            /\ context' = rederived
                            /\ request' =
                                   [size |-> system_tokens
                                             + (rederived.tokens + message_tokens)
                                             + tools_tokens,
                                    rederived |-> TRUE, sent |-> TRUE, success |-> TRUE]
                   ELSE /\ context' = context
                        /\ request' = [size |-> request_size, rederived |-> FALSE,
                                       sent |-> FALSE, success |-> FALSE]
              ELSE /\ context' = context
                   /\ request' = [size |-> request_size, rederived |-> FALSE,
                                  sent |-> TRUE, success |-> TRUE]
    /\ ctx_pc' = "decided"
    /\ UNCHANGED <<loopVars, ctx_input, mgrVars>>

ContextNext == PrepareContextCalled \/ DecideAction

ContextSpec == ContextInit /\ [][ContextNext]_vars

\* C8: the context prepare_context returns has an estimated cost of at most
\* max_tokens.
C8_ContextWithinMaxTokens ==
    ctx_pc = "prepared" => context.tokens <= context.max_tokens

\* C9: the oracle is never called with a request whose estimate exceeds
\* MAX_REQUEST_TOKENS.
C9_RequestWithinCeiling ==
    (ctx_pc = "decided" /\ request.sent) => request.size <= MAX_REQUEST_TOKENS

\* C10: every element of the page model that is in a modal is among the
\* elements of the context prepare_context returns.
C10_ModalElementsKept ==
    ctx_pc = "prepared" =>
        \A i \in 1..Len(ctx_input.page_model.interactive_elements) :
            ctx_input.page_model.interactive_elements[i].in_modal =>
                \E j \in 1..Len(context.interactive_elements) :
                    context.interactive_elements[j].selector = i

\* ------------------------------------------------- the control loop: claims
\* the achieved count of a requirement
Achieved(key) == Get(progress_counters, key, 0)

\* C1: the session is Completed, and success is returned, only in a state
\* where every requirement parsed from the task has an achieved count of at
\* least the required count; the completion check is started exactly when
\* can_complete_task holds, i.e. when no counter is below its requirement.
C1_CompletedOnlyWhenRequirementsMet ==
    /\ (state = COMPLETED \/ result.success) =>
           \A key \in DOMAIN requirements : Achieved(key) >= requirements[key]
    /\ pc = "completion_check" =>
           \A key \in DOMAIN requirements : Achieved(key) >= requirements[key]
    /\ CanCompleteTask(requirements, progress_counters) <=>
           ~(\E key \in DOMAIN requirements : Achieved(key) < requirements[key])

\* a session with a parsed requirement has been accepted as Completed
C1_Witness ==
    /\ pc = "returned"
    /\ state = COMPLETED
    /\ result.success
    /\ "applications" \in DOMAIN requirements

\* C2: for a task that requires applications, a successful action updates
\* the achieved count while the requirement is unmet (so that a later
\* task_complete can be accepted).
C2_SuccessfulActionUpdatesProgress ==
    [][(/\ pc = "act"
        /\ pc' = "loop"
        /\ "applications" \in DOMAIN requirements
        /\ Achieved("applications") < requirements["applications"])
       => progress_counters' # progress_counters]_vars

\* What the code does instead: a session that requires a positive number of
\* applications is never Completed.
C2_CompletedUnreachable ==
    ("applications" \in DOMAIN requirements /\ requirements["applications"] > 0)
        => (state # COMPLETED /\ ~result.success /\ pc # "completion_check")

\* C3: the loop makes at most MaxIterations passes, the iteration-budget
\* failure is returned after exactly MaxIterations passes, and, every
\* collaborator call returning, execute_task returns.
C3_Terminates ==
    /\ [](current_iteration <= MaxIterations)
    /\ [](result.reason = "max_iterations" =>
              (pc = "returned" /\ ~result.success /\ current_iteration = MaxIterations))
    /\ [][current_iteration' # current_iteration =>
              (pc' = "observe" /\ current_iteration' = current_iteration + 1)
              \/ (pc = "idle" /\ current_iteration' = 0)]_vars
    /\ <>(pc = "returned")

\* the iteration budget was exhausted
C3_Witness ==
    /\ pc = "returned"
    /\ result.reason = "max_iterations"
    /\ current_iteration = MaxIterations
    /\ Len(action_history) >= 1

\* C4: with a positive verdict of detect_loop in Observe, the Observe step
\* returns the failure with the verdict, without a call of the oracle or of
\* the backend; after a returned loop failure nothing is called or retried.
C4_LoopVerdictAborts ==
    /\ [][(/\ pc = "observe"
           /\ DetectLoop(action_history).detected
           /\ pc' # "observe"
           /\ result'.reason \notin {"exception", "interrupted"})
          => /\ pc' = "returned"
             /\ result' = Result(FALSE, "loop", DetectLoop(action_history),
                                 current_iteration)
             /\ DetectLoop(action_history).check # "none"
             /\ oracle_calls' = oracle_calls
             /\ backend_calls' = backend_calls]_vars
    /\ [][result.reason = "loop" =>
             /\ pc' = "returned"
             /\ result' = result
             /\ oracle_calls' = oracle_calls
             /\ backend_calls' = backend_calls
             /\ action_history' = action_history]_vars

\* execute_task returned the verdict detect_loop gave in Observe
C4_Witness ==
    /\ pc = "returned"
    /\ result.reason = "loop"
    /\ result.loop_info.detected
    /\ state = OBSERVING

\* C5: after stop() during the suspension of Observe or Decide, the
\* controller goes on to no further phase of the pass: no decision is asked
\* for, no action is executed and no record is appended.
C5_StopEndsThePass ==
    [][(should_stop /\ pc \in {"observe", "decide"})
       => /\ pc' \in {pc, "returned", "loop"}
          /\ backend_calls' = backend_calls
          /\ oracle_calls' = oracle_calls
          /\ action_history' = action_history]_vars

\* the record at position i, without the advice Reflect writes into it
RecordCore(h, i) ==
    [h[i] EXCEPT !.result.error_suggestion = "", !.result.error_strategy = ""]

\* C6: once stop() was called, no pass is started, execute_task returns, and
\* every record of the action history stays at its position.
C6_StopUnwinds ==
    /\ [][should_stop =>
             /\ current_iteration' = current_iteration
             /\ pc' # "observe" \/ pc = "observe"
             /\ should_stop'
             /\ Len(action_history') >= Len(action_history)
             /\ \A i \in 1..Len(action_history) :
                    RecordCore(action_history', i) = RecordCore(action_history, i)]_vars
    /\ should_stop ~> (pc = "returned")

\* execute_task returned after a stop, with the records of two passes
C6_Witness ==
    /\ pc = "returned"
    /\ should_stop
    /\ result.reason = "interrupted"
    /\ Len(action_history) >= 2
    /\ current_iteration < MaxIterations

\* C7: when execute_task has returned, the status is Completed exactly when
\* success was returned, and Error for every failure.
C7_ReturnsInTerminalStatus ==
    pc = "returned" =>
        /\ state \in {COMPLETED, ERROR}
        /\ (state = COMPLETED) <=> result.success
        /\ (state = ERROR) <=> ~result.success

\* ------------------------------------------------------- the context: order
\* the score the elements of a context were last sorted by: the
\* relevance_score of extract_relevant_elements when they carry one, else
\* the sort key of _optimize_elements
ElementScore(e) == IF e.scored THEN e.relevance_score ELSE SortKey(e, "none")

\* C11: whenever the page model has at least one element, the element list
\* of the context prepare_context returns is non-empty and in non-increasing
\* order of priority score.
C11_ElementsNonEmptyAndSorted ==
    (ctx_pc = "prepared" /\ Len(ctx_input.page_model.interactive_elements) >= 1) =>
        /\ Len(context.interactive_elements) >= 1
        /\ \A i \in 1..Len(context.interactive_elements) - 1 :
               ElementScore(context.interactive_elements[i])
                   >= ElementScore(context.interactive_elements[i + 1])

\* ------------------------------------------- the state manager: specification
\* the longest action history of the state manager specification
MaxHistory == 4

\* page diffs as execute_task computes them on PageA: none, and a changed DOM
StillDiff ==
    [page_changed |-> FALSE, url_before |-> UrlA, url_after |-> UrlA,
     title_before |-> "A", title_after |-> "A", dom_changed |-> FALSE,
     new_elements |-> [new_modals |-> FALSE, new_forms |-> FALSE,
                       new_interactive_elements |-> FALSE]]
ChangedDiff == [StillDiff EXCEPT !.page_changed = TRUE, !.dom_changed = TRUE]

\* decisions of the other action classes
TypeName == [action |-> "type_text", parameters |-> Params(<<"n">>, NoText, NoUrl, NoText)]
ExtractPrice ==
    [action |-> "extract_text", parameters |-> Params(<<"p">>, NoText, NoUrl, NoText)]

\* two query_dom texts that differ in letter case, blanks and the final
\* punctuation, and the decisions asking them
QueryBox == <<"A", " ", "b", " ", "c", "?">>
QueryBoxAgain == <<"a", " ", " ", "b", " ", "c">>
AskBox == [action |-> "query_dom", parameters |-> Params(NoText, NoText, NoUrl, QueryBox)]
AskBoxAgain ==
    [action |-> "query_dom", parameters |-> Params(NoText, NoText, NoUrl, QueryBoxAgain)]

\* the records the state manager specification appends
Records ==
    { ActionRecord(ClickSubmit, ActionSucceeded(ClickSubmit, PageA), StillDiff),
      ActionRecord(ClickSubmit, ActionFailed, StillDiff),
      ActionRecord(ClickSubmit, ActionSucceeded(ClickSubmit, PageA), ChangedDiff),
      ActionRecord(NavigateB, ActionSucceeded(NavigateB, PageB), StillDiff),
      ActionRecord(TypeName, ActionSucceeded(TypeName, PageA), StillDiff),
      ActionRecord(TypeName, ActionFailed, StillDiff),
      ActionRecord(ExtractPrice, ActionSucceeded(ExtractPrice, PageA), StillDiff),
      ActionRecord(AskBox, ActionSucceeded(AskBox, PageA), StillDiff),
      ActionRecord(AskBoxAgain, ActionSucceeded(AskBoxAgain, PageA), StillDiff) }

\* AgentStateManager.add_action
AddAction ==
    /\ pc = "idle"
    /\ Len(action_history) < MaxHistory
    /\ \E action \in Records : action_history' = AppendAction(action_history, action)
    /\ iteration_count' = iteration_count + 1
    /\ mgr_pc' = "recorded"
    /\ UNCHANGED <<pc, state, visited_urls, last_error, current_iteration, should_stop,
                   requirements, progress_counters, history, page, page_info, decision,
                   result, oracle_calls, backend_calls>>
    /\ UNCHANGED <<ctxVars, last_verdict, qryVars, svcVars, completion_check>>

\* AgentStateManager.detect_loop is called on the action history
DetectLoopCalled ==
    /\ pc = "idle"
    /\ mgr_pc \in {"idle", "recorded"}
    /\ \E verdict \in {DetectLoop(action_history)} : last_verdict' = verdict
    /\ mgr_pc' = "detected"
    /\ UNCHANGED <<loopVars, ctxVars, qryVars, svcVars, completion_check>>

ManagerNext == AddAction \/ DetectLoopCalled

ManagerSpec == Init /\ [][ManagerNext]_vars

\* ------------------------------------------------ the state manager: claims
\* a history of identical records, none carrying a page diff
IdenticalStill(h) ==
    /\ Len(h) >= 1
    /\ \A i \in 1..Len(h) : h[i] = h[1]
    /\ ~h[1].page_changed
    /\ ~GetActionSignature(h[1]).has_new_elements

\* C12 as stated: for a history of N identical records without a page diff,
\* detect_loop returns a positive verdict if and only if N is at least 2 for
\* navigate and click_element and at least 3 for every other action.
C12_ThresholdByActionClass ==
    (mgr_pc = "detected" /\ IdenticalStill(action_history)) =>
        (last_verdict.detected <=>
            Len(action_history) >=
                (IF action_history[1].action \in {"navigate", "click_element"}
                 THEN 2 ELSE 3))

\* the number of identical records without a page diff from which on the
\* checks of detect_loop give a verdict: 2 also for a record that failed with
\* an error, for an extract_text with a description and for a query_dom with
\* a query
RepeatThreshold(r) ==
    IF \/ r.action \in {"navigate", "click_element"}
       \/ (~r.result.success /\ r.result.error # "")
       \/ (r.action = "extract_text" /\ r.parameters.description # NoText)
       \/ (r.action = "query_dom" /\ r.parameters.query # NoText)
    THEN 2 ELSE 3

\* C12, amended: for a history of N identical records without a page diff,
\* detect_loop returns a positive verdict if and only if N is at least 2 for
\* navigate, click_element, failed records, extract_text and query_dom, and
\* at least 3 for every other successful action.
C12_ThresholdByCheck ==
    (mgr_pc = "detected" /\ IdenticalStill(action_history)) =>
        (last_verdict.detected <=>
            Len(action_history) >= RepeatThreshold(action_history[1]))

\* detect_loop gave the verdict of the consecutive repeats on three identical
\* successful type_text records
C12_Witness ==
    /\ mgr_pc = "detected"
    /\ IdenticalStill(action_history)
    /\ Len(action_history) = 3
    /\ action_history[1].action = "type_text"
    /\ action_history[1].result.success
    /\ last_verdict.detected
    /\ last_verdict.check = "consecutive"

\* the descriptions of the last four records
LastDescriptions(h) ==
    [i \in 1..4 |-> ActionDescription(h[Len(h) - 4 + i])]

\* C13: whenever the four most recent records have the action descriptions
\* A, B, A, B with A different from B, detect_loop returns a positive verdict.
C13_AlternationDetected ==
    (/\ mgr_pc = "detected"
     /\ Len(action_history) >= 4
     /\ LastDescriptions(action_history)[1] = LastDescriptions(action_history)[3]
     /\ LastDescriptions(action_history)[2] = LastDescriptions(action_history)[4]
     /\ LastDescriptions(action_history)[1] # LastDescriptions(action_history)[2])
    => last_verdict.detected

\* the two most recent records are the same action with the same
\* parameters, failed with the same error message, without a page diff
FailedTwice(h) ==
    /\ Len(h) >= 2
    /\ h[Len(h)].action = h[Len(h) - 1].action
    /\ h[Len(h)].parameters = h[Len(h) - 1].parameters
    /\ \A i \in {Len(h) - 1, Len(h)} :
           /\ ~h[i].result.success
           /\ h[i].result.error # ""
           /\ h[i].result.error = h[Len(h)].result.error
           /\ ~h[i].page_changed
           /\ ~GetActionSignature(h[i]).has_new_elements

\* C14: whenever the two most recent records are the same action with the
\* same parameters, both failed with the same error message and neither
\* carries a page diff, detect_loop returns a positive verdict, whatever the
\* older records are.
C14_RepeatedFailureDetected ==
    (mgr_pc = "detected" /\ FailedTwice(action_history)) => last_verdict.detected

\* records i < j of h are query_dom records with equal or similar
\* normalized queries and no record between them changed the page
DuplicateQueryPair(h, i, j) ==
    /\ i < j
    /\ h[i].action = "query_dom" /\ h[j].action = "query_dom"
    /\ h[i].parameters.query # NoText /\ h[j].parameters.query # NoText
    /\ \/ NormalizeQuery(h[i].parameters.query) = NormalizeQuery(h[j].parameters.query)
       \/ AreQueriesSimilar(NormalizeQuery(h[i].parameters.query),
                            NormalizeQuery(h[j].parameters.query))
    /\ \A k \in (i + 1)..(j - 1) : ~h[k].page_changed

\* C15: detect_loop returns the duplicate-query verdict only if two equal or
\* similar query_dom records have no page diff between them.
C15_DuplicateQueryOnlyWithoutDiff ==
    (mgr_pc = "detected" /\ last_verdict.check = "query_dom") =>
        \E i, j \in 1..Len(action_history) : DuplicateQueryPair(action_history, i, j)

\* ------------------------------------------------ sessions of execute_task
\* The calls execute_task makes on the session state, one call per step:
\* query_dom actions, tracked URLs, the end of a session and a second
\* execute_task on the same agent.
MaxQueries == 2

\* a query that differs from QueryBox by a question mark inside the text, and
\* a query of one word of the synonym table
QueryBoxInner == <<"a", " ", "b", "?", " ", "c">>
QuerySelectors == <<"selectors">>
QueryTexts == {QueryBox, QueryBoxAgain, QueryBoxInner, QuerySelectors}
AskQuery(query) == [action |-> "query_dom", parameters |-> Params(NoText, NoText, NoUrl, query)]

\* ActionExecutor._normalize_query_for_comparison
NormalizeQueryForComparison(query) ==
    RStripPunct(JoinWords(SplitWords(LowerAll(query), 1, <<>>)))

\* AgentStateManager.add_query_dom: the stored key is the text
\* _normalize_query returns, the history keeps its last 20 entries
AddQueryDom(queries, query, answer, url) ==
    LastN(Append(queries, [query |-> query,
                           normalized_query |-> JoinWords(NormalizeQuery(query)),
                           answer |-> answer, url |-> url]), 20)

\* AgentStateManager.get_recent_query_dom_info
GetRecentQueryDomInfo(queries, limit) == LastN(queries, limit)

\* ActionExecutor._query_dom with a query text and a sub-agent manager: the
\* answer of the first recent entry with the same key, or the answer of the
\* DOM sub-agent (the sub-agent answers; its failure is left out)
QueryDom(queries, query) ==
    LET recent == GetRecentQueryDomInfo(queries, 10)
        normalized_query == NormalizeQueryForComparison(query)
        hits == {i \in 1..Len(recent) : recent[i].normalized_query = normalized_query}
    IN  IF hits # {}
        THEN [success |-> TRUE, from_cache |-> TRUE,
              answer |-> recent[CHOOSE i \in hits : \A j \in hits : i <= j].answer]
        ELSE [success |-> TRUE, from_cache |-> FALSE, answer |-> "#box"]

\* A pass whose decision is query_dom: the page is observed, then the Act
\* step with _query_dom, add_action, add_query_dom (with the URL of the
\* observed page), add_to_history and update_progress.
QueryDomActed ==
    /\ pc = "loop"
    /\ ~should_stop
    /\ Len(query_dom_history) < MaxQueries
    /\ page_info' = page
    /\ \E query \in QueryTexts :
          \E answered \in {QueryDom(query_dom_history, query)} :
             /\ decision' = AskQuery(query)
             /\ query_result' = answered
             /\ subagent_calls' = IF answered.from_cache THEN subagent_calls
                                  ELSE subagent_calls + 1
             /\ action_history' =
                    AppendAction(action_history,
                                 ActionRecord(AskQuery(query),
                                              ActionSucceeded(AskQuery(query), page),
                                              StillDiff))
             /\ query_dom_history' =
                    AddQueryDom(query_dom_history, query, answered.answer, page.url)
             /\ history' = AddToHistory(history, <<"query_dom", AskQuery(query).parameters>>,
                                        answered)
             /\ progress_counters' =
                    UpdateProgress(progress_counters, AskQuery(query), answered)
    /\ iteration_count' = iteration_count + 1
    /\ backend_calls' = backend_calls + 1
    /\ state' = REFLECTING
    /\ UNCHANGED <<pc, visited_urls, last_error, current_iteration, should_stop,
                   requirements, page, result, oracle_calls>>
    /\ UNCHANGED <<ctxVars, mgr_pc, last_verdict, restarted, reentered, svcVars,
                   completion_check>>

\* URLs with a query, a fragment and a trailing slash
UrlBFragment == <<"b", "#", "f">>
UrlBSlash == <<"b", "/">>
UrlBoth == <<"a", "/", "#", "f", "?", "q">>
SessionUrls == {UrlA, UrlB, UrlBFragment, UrlBSlash, UrlBoth}

\* AgentStateManager.add_visited_url, called for the URL of the observed page
\* and for the URL a navigation ended on
AddVisitedUrlCalled ==
    /\ pc = "loop"
    /\ ~should_stop
    /\ \E url \in SessionUrls : visited_urls' = AddVisitedUrl(visited_urls, url)
    /\ UNCHANGED <<pc, state, action_history, iteration_count, last_error,
                   current_iteration, should_stop, requirements, progress_counters,
                   history, page, page_info, decision, result, oracle_calls,
                   backend_calls>>
    /\ UNCHANGED <<ctxVars, mgrVars>>

\* execute_task on an agent whose earlier execute_task has returned
ExecuteTaskAgain ==
    /\ pc = "returned"
    /\ ~restarted
    /\ StartSession
    /\ restarted' = TRUE
    /\ UNCHANGED reentered

SessionNext ==
    \/ ExecuteTask
    \/ QueryDomActed
    \/ AddVisitedUrlCalled
    \/ KeyboardInterrupt
    \/ ExecuteTaskAgain

SessionSpec == Init /\ [][SessionNext]_vars

\* A pass whose decision is navigate from PageA to PageB and succeeds: the
\* page is observed and its URL tracked, then the Act step with the
\* navigation, add_action, add_visited_url and add_to_history.
NavigateActed ==
    /\ pc = "loop"
    /\ ~should_stop
    /\ page = PageA
    /\ page_info' = page
    /\ page' = PageB
    /\ decision' = NavigateB
    /\ \E action_result \in {ActionSucceeded(NavigateB, PageB)} :
          /\ action_history' =
                 AppendAction(action_history,
                              ActionRecord(NavigateB, action_result,
                                           PageDiff("navigate", page, page, PageB,
                                                    action_result)))
          /\ visited_urls' = AddVisitedUrl(AddVisitedUrl(visited_urls, page.url),
                                           action_result.url)
          /\ history' = AddToHistory(history, <<"navigate", NavigateB.parameters>>,
                                     action_result)
          /\ progress_counters' = UpdateProgress(progress_counters, NavigateB, action_result)
    /\ iteration_count' = iteration_count + 1
    /\ backend_calls' = backend_calls + 1
    /\ state' = REFLECTING
    /\ UNCHANGED <<pc, last_error, current_iteration, should_stop, requirements, result,
                   oracle_calls>>
    /\ UNCHANGED <<ctxVars, mgrVars>>

PageQueryNext == ExecuteTask \/ QueryDomActed \/ NavigateActed

PageQuerySpec == Init /\ [][PageQueryNext]_vars

\* the words of a text without letter case and punctuation
Words(text) ==
    SplitWords(SelectSeq(LowerAll(text), LAMBDA c : c \notin Punctuation), 1, <<>>)

\* C16: a query_dom whose text differs from a query recorded in this session
\* only in letter case, whitespace or punctuation is answered from the
\* recorded queries, and the DOM sub-agent is not called.
C16_EquivalentQueryServedFromCache ==
    [][ ( /\ pc = "loop" /\ pc' = "loop"
          /\ Len(action_history') = Len(action_history) + 1
          /\ decision'.action = "query_dom"
          /\ \E i \in 1..Len(query_dom_history) :
                Words(query_dom_history[i].query) = Words(decision'.parameters.query) )
        => ( subagent_calls' = subagent_calls /\ query_result'.from_cache ) ]_vars

\* the part of a URL before its query and its fragment
RECURSIVE PathOf(_)
PathOf(url) ==
    IF url = <<>> \/ Head(url) \in {"?", "#"} THEN <<>>
    ELSE <<Head(url)>> \o PathOf(Tail(url))

\* a URL without query, fragment and trailing slash
IsNormalizedUrl(url) ==
    /\ \A i \in 1..Len(url) : url[i] \notin {"?", "#"}
    /\ url # <<>> => url[Len(url)] # "/"

\* C17: the visited URLs hold no value twice and only normalized values,
\* normalizing a normalized URL changes nothing, and adding a URL that differs
\* from an added one only in its query or fragment leaves the size unchanged.
C17_VisitedUrlsNormalizedAndDistinct ==
    /\ \A i, j \in 1..Len(visited_urls) : visited_urls[i] = visited_urls[j] => i = j
    /\ \A i \in 1..Len(visited_urls) :
          /\ IsNormalizedUrl(visited_urls[i])
          /\ \E url \in SessionUrls \cup {p.url : p \in Pages} :
                visited_urls[i] = NormalizeUrl(url)
    /\ \A url \in SessionUrls : NormalizeUrl(NormalizeUrl(url)) = NormalizeUrl(url)
    /\ \A url, added \in SessionUrls :
          ( /\ PathOf(url) = PathOf(added)
            /\ AddVisitedUrl(visited_urls, added) = visited_urls )
          => Len(AddVisitedUrl(visited_urls, url)) = Len(visited_urls)

\* both paths were added, each under several spellings
C17_Witness ==
    /\ pc = "loop"
    /\ visited_urls = <<NormalizeUrl(UrlBFragment), NormalizeUrl(UrlBoth)>>

\* C18: when execute_task starts a session, the action history, the visited
\* URLs, the query history, the progress counters and the decision-prompt
\* history of the context manager are empty.
C18_SessionStartsEmpty ==
    [][ (pc \in {"idle", "returned"} /\ pc' = "loop")
        => ( /\ action_history' = <<>>
             /\ visited_urls' = <<>>
             /\ query_dom_history' = <<>>
             /\ progress_counters' = EmptyDict
             /\ history' = <<>> ) ]_vars

\* C19: a pass appends at most one record to the action history, at its end
\* and in the Act step; the history never shrinks and no record leaves its
\* position.
C19_HistoryAppendOnly ==
    /\ [](Len(action_history) <= current_iteration)
    /\ [][ /\ Len(action_history') \in {Len(action_history), Len(action_history) + 1}
           /\ Len(action_history') = Len(action_history) + 1 => (pc = "act" /\ pc' # "act")
           /\ \A i \in 1..Len(action_history) :
                  RecordCore(action_history', i) = RecordCore(action_history, i) ]_vars

\* three passes have run, two of them appended a record
C19_Witness ==
    /\ current_iteration = 3
    /\ Len(action_history) = 2
    /\ action_history[1].action # action_history[2].action

\* C20: a record of the action history is never modified: its action,
\* parameters, result and page-diff fields stay as appended.
C20_RecordsImmutable ==
    [][ \A i \in 1..Len(action_history) :
           i <= Len(action_history') => action_history'[i] = action_history[i] ]_vars

\* C21: after every pass of the loop the iteration counter of the state
\* manager equals the number of passes started in the session.
C21_CounterEqualsPasses ==
    pc = "loop" => iteration_count = current_iteration

\* -------------------------------------------------- ActionResultValidator
MaxCached == 1
ValidationCacheLimit == 100

\* ActionResultValidator.CRITICAL_ACTIONS
ValidatorCriticalActions == {"navigate", "click_element", "type_text"}

\* a scroll by an amount
Scroll(amount) == [action |-> "scroll", parameters |-> [amount |-> amount]]

\* the fields of an action result the validator reads
Validated(success, page_changed, new_modals, new_forms) ==
    [success |-> success, page_changed |-> page_changed,
     new_elements |-> [new_modals |-> new_modals, new_forms |-> new_forms]]
ValidatedResults ==
    {Validated(s, c, m, f) : s \in BOOLEAN, c \in BOOLEAN, m \in BOOLEAN, f \in BOOLEAN}

\* _get_cache_key: the digest is taken as the data it is computed from
GetCacheKey(action, action_params, action_result) ==
    [action |-> action, params |-> action_params, success |-> action_result.success,
     page_changed |-> action_result.page_changed,
     new_modals |-> action_result.new_elements.new_modals,
     new_forms |-> action_result.new_elements.new_forms]

\* the heuristic tier without its rule for type_text
HeuristicValidationWithoutTypeText(action, action_result) ==
    IF ~action_result.success THEN [decided |-> TRUE, is_valid |-> FALSE]
    ELSE IF action = "navigate" /\ ~action_result.page_changed
         THEN [decided |-> TRUE, is_valid |-> FALSE]
    ELSE IF action = "click_element" /\ ~action_result.page_changed
            /\ ~action_result.new_elements.new_modals
            /\ ~action_result.new_elements.new_forms
         THEN [decided |-> TRUE, is_valid |-> FALSE]
    ELSE [decided |-> FALSE, is_valid |-> TRUE]

\* the heuristic tier without its rules for navigate and click_element
HeuristicValidationWithoutEffect(action, action_result) ==
    IF ~action_result.success THEN [decided |-> TRUE, is_valid |-> FALSE]
    ELSE IF action = "type_text" THEN [decided |-> TRUE, is_valid |-> TRUE]
    ELSE [decided |-> FALSE, is_valid |-> TRUE]

\* _heuristic_validation; decided = FALSE stands for None
HeuristicValidation(action, action_result) ==
    LET success == action_result.success
        page_changed == action_result.page_changed
        has_new_modals == action_result.new_elements.new_modals
        has_new_forms == action_result.new_elements.new_forms
    IN  IF ~success THEN [decided |-> TRUE, is_valid |-> FALSE]
        ELSE IF action = "navigate" /\ ~page_changed
             THEN [decided |-> TRUE, is_valid |-> FALSE]
        ELSE IF action = "click_element" /\ ~page_changed /\ ~has_new_modals
                /\ ~has_new_forms
             THEN [decided |-> TRUE, is_valid |-> FALSE]
        ELSE IF action = "type_text" THEN [decided |-> TRUE, is_valid |-> TRUE]
        ELSE [decided |-> FALSE, is_valid |-> TRUE]

\* what the oracle does in _check_outcome_match: it answers is_valid true or
\* false, or the call raises
OracleAnswers == {"valid", "invalid", "raises"}

\* _check_outcome_match: is_valid of the answer, True if the call raised
CheckOutcomeMatch(answer) == answer # "invalid"

\* whether validate_action_result reaches the oracle tier
ValidatorAsksOracle(cache, action, action_params, action_result) ==
    /\ ~HeuristicValidation(action, action_result).decided
    /\ \A i \in 1..Len(cache) :
          cache[i].key # GetCacheKey(action, action_params, action_result)
    /\ action \in ValidatorCriticalActions

\* validate_action_result on a cache: what it returns, the cache afterwards
\* and the oracle calls it made (_extract_expected_outcome and
\* _check_outcome_match ask the oracle once each)
ValidateActionResult(cache, action, action_params, action_result, answer) ==
    LET heuristic_result == HeuristicValidation(action, action_result)
        cache_key == GetCacheKey(action, action_params, action_result)
        cached == {i \in 1..Len(cache) : cache[i].key = cache_key}
        Returned(is_valid, from_cache, heuristic, after, calls) ==
            [is_valid |-> is_valid, from_cache |-> from_cache, heuristic |-> heuristic,
             cache |-> after, oracle_calls |-> calls]
    IN  IF heuristic_result.decided
        THEN Returned(heuristic_result.is_valid, FALSE, TRUE, cache, 0)
        ELSE IF cached # {}
        THEN Returned(cache[CHOOSE i \in cached : TRUE].is_valid, TRUE, FALSE, cache, 0)
        ELSE IF action \notin ValidatorCriticalActions
        THEN Returned(TRUE, FALSE, FALSE,
                      Append(cache, [key |-> cache_key, is_valid |-> TRUE]), 0)
        ELSE LET is_valid == CheckOutcomeMatch(answer)
                 written == Append(cache, [key |-> cache_key, is_valid |-> is_valid])
             IN  Returned(is_valid, FALSE, FALSE,
                          IF Len(written) > ValidationCacheLimit THEN Tail(written)
                          ELSE written, 2)

\* the call and what it returned, as the validator specifications record it
Validation(d, action_result, returned) ==
    [called |-> TRUE, action |-> d.action, action_result |-> action_result,
     is_valid |-> returned.is_valid, from_cache |-> returned.from_cache,
     heuristic |-> returned.heuristic, oracle_calls |-> returned.oracle_calls]

ValidatedDecisions == {ClickSubmit, NavigateB, TypeName, Scroll(1)}

\* validate_action_result is called; a call that writes the cache is taken
\* while the cache holds fewer than MaxCached entries
ValidateActionResultCalled ==
    /\ pc = "idle"
    /\ \E d \in ValidatedDecisions, action_result \in ValidatedResults :
          \E answer \in IF ValidatorAsksOracle(validation_cache, d.action, d.parameters,
                                               action_result)
                         THEN OracleAnswers ELSE {"valid"} :
          \E returned \in {ValidateActionResult(validation_cache, d.action, d.parameters,
                                                action_result, answer)} :
             /\ returned.cache = validation_cache \/ Len(validation_cache) < MaxCached
             /\ validation_cache' = returned.cache
             /\ validation' = Validation(d, action_result, returned)
    /\ UNCHANGED <<loopVars, ctxVars, mgr_pc, last_verdict, qryVars, error_solution_cache,
                   error_analysis, untrimmed, completion_check>>

ValidatorNext == ValidateActionResultCalled

ValidatorSpec == Init /\ [][ValidatorNext]_vars

\* a successful action that changed the page
Changed == Validated(TRUE, TRUE, FALSE, FALSE)

\* validate_action_result is called for a scroll by an amount not seen before
ValidateNextScroll ==
    /\ pc = "idle"
    /\ Len(validation_cache) <= ValidationCacheLimit
    /\ \E d \in {Scroll(Len(validation_cache) + 1)} :
          \E returned \in {ValidateActionResult(validation_cache, d.action, d.parameters,
                                                Changed, "valid")} :
             /\ validation_cache' = returned.cache
             /\ validation' = Validation(d, Changed, returned)
    /\ UNCHANGED <<loopVars, ctxVars, mgr_pc, last_verdict, qryVars, error_solution_cache,
                   error_analysis, untrimmed, completion_check>>

\* validate_action_result is called for a navigation when the cache is full
ValidateNavigationWhenFull ==
    /\ pc = "idle"
    /\ Len(validation_cache) >= ValidationCacheLimit
    /\ \E answer \in OracleAnswers :
          \E returned \in {ValidateActionResult(validation_cache, NavigateB.action,
                                                NavigateB.parameters, Changed, answer)} :
             /\ validation_cache' = returned.cache
             /\ validation' = Validation(NavigateB, Changed, returned)
    /\ UNCHANGED <<loopVars, ctxVars, mgr_pc, last_verdict, qryVars, error_solution_cache,
                   error_analysis, untrimmed, completion_check>>

ValidatorFillNext == ValidateNextScroll \/ ValidateNavigationWhenFull

ValidatorFillSpec == Init /\ [][ValidatorFillNext]_vars

\* C22: a type_text that reports success is valid by the heuristic tier,
\* whether or not the page changed, and a verdict of the heuristic tier is
\* returned without an oracle call and without a write to the cache.
C22_HeuristicShortCircuits ==
    [][ validation'.called /\ validation' # validation =>
          /\ (validation'.action = "type_text" /\ validation'.action_result.success)
             => (validation'.is_valid /\ validation'.heuristic)
          /\ HeuristicValidation(validation'.action, validation'.action_result).decided
             => ( /\ validation'.heuristic
                  /\ validation'.oracle_calls = 0
                  /\ validation_cache' = validation_cache ) ]_vars

\* a successful type_text without a page change was validated while the cache
\* held an entry
C22_Witness ==
    /\ validation.called
    /\ validation.action = "type_text"
    /\ validation.action_result = Validated(TRUE, FALSE, FALSE, FALSE)
    /\ validation.is_valid
    /\ Len(validation_cache) = 1

\* C23: a verdict of validate_action_result is valid only for an action that
\* reported success; for navigate only if the page changed; for click_element
\* only if the page changed or a modal or a form appeared.
C23_ValidOnlyWithEffect ==
    (validation.called /\ validation.is_valid) =>
       /\ validation.action_result.success
       /\ validation.action = "navigate" => validation.action_result.page_changed
       /\ validation.action = "click_element" =>
             \/ validation.action_result.page_changed
             \/ validation.action_result.new_elements.new_modals
             \/ validation.action_result.new_elements.new_forms

\* a click that opened a form was found valid from the cache
C23_Witness ==
    /\ validation.called
    /\ validation.action = "click_element"
    /\ validation.from_cache
    /\ validation.is_valid
    /\ ~validation.action_result.page_changed
    /\ validation.action_result.new_elements.new_forms

\* C24: the verdict cache never holds more than 100 entries.
C24_CacheBounded ==
    Len(validation_cache) <= ValidationCacheLimit

\* ----------------------------------------------------------- ErrorHandler
MaxRetries == 3
ErrorCacheLimit == 200

\* An error text is its lower-case text without digits, its digits, and the
\* rule keywords that occur in it. A suggestion is its text and the strategy
\* keywords that occur in it. Of the keywords of a rule the English ones are
\* listed (the texts of the model are English).
ErrorText(text, digits, contains) == [text |-> text, digits |-> digits, contains |-> contains]
TimeoutExceeded == ErrorText("timeout ms exceeded", "10000", {"timeout"})
TimeoutLonger == ErrorText("timeout ms exceeded", "30000", {"timeout"})
ClickIntercepted == ErrorText("element click intercepted", "", {"intercepted"})
ElementNotFound == ErrorText("element not found", "", {"not found", "element not found"})
ElementHidden == ErrorText("element is hidden", "", {"hidden", "element is hidden"})
UnknownError == ErrorText("unexpected state ", "1", {})
UnknownErrorAgain == ErrorText("unexpected state ", "2", {})
ErrorTexts ==
    {TimeoutExceeded, TimeoutLonger, ClickIntercepted, ElementNotFound, ElementHidden,
     UnknownError, UnknownErrorAgain}

Rule(keywords, strategy) == [keywords |-> keywords, strategy |-> strategy]
Suggestion(text, contains) == [text |-> text, contains |-> contains]
NoSuggestion == Suggestion("", {})

\* the first rule of a table with a keyword in the text, 0 if there is none
FirstMatch(rules, error) ==
    LET matching == {i \in 1..Len(rules) : rules[i].keywords \cap error.contains # {}}
    IN  IF matching = {} THEN 0 ELSE CHOOSE i \in matching : \A j \in matching : i <= j

\* the heuristic rules without the rule for timeouts
HeuristicRulesWithoutTimeout ==
    << Rule({"not visible", "is not visible"}, "scroll_to_element"),
       Rule({"disabled", "is disabled"}, "wait"),
       Rule({"intercepted", "obscured", "is not clickable"}, "close_modals") >>

\* the rules of _heuristic_error_handling after the one for a missing element
HeuristicRules ==
    << Rule({"timeout", "timed out"}, "wait"),
       Rule({"not visible", "is not visible"}, "scroll_to_element"),
       Rule({"disabled", "is disabled"}, "wait"),
       Rule({"intercepted", "obscured", "is not clickable"}, "close_modals"),
       Rule({"invalid selector", "malformed"}, "alternative_description"),
       Rule({"page not loaded", "navigation"}, "wait"),
       Rule({"out of viewport", "not in viewport"}, "scroll_to_element"),
       Rule({"network", "connection"}, "wait"),
       Rule({"javascript", "js error", "script error"}, "alternative"),
       Rule({"detached", "stale"}, "alternative") >>

\* _heuristic_error_handling; matched = FALSE stands for None
HeuristicErrorHandling(error, action) ==
    LET Found(strategy) ==
            [matched |-> TRUE, suggestion |-> Suggestion("heuristic: " \o strategy, {}),
             strategy |-> strategy]
        i == FirstMatch(HeuristicRules, error)
    IN  IF {"not found", "element not found"} \cap error.contains # {}
           /\ action \in {"click_element", "extract_text", "type_text"}
        THEN Found(IF action = "type_text" THEN "alternative" ELSE "scroll")
        ELSE IF i # 0 THEN Found(HeuristicRules[i].strategy)
        ELSE [matched |-> FALSE, suggestion |-> NoSuggestion, strategy |-> ""]

\* ErrorPatternMatcher.PATTERNS
PATTERNS ==
    << Rule({"element not found", "selector not found"}, "scroll"),
       Rule({"element is not visible", "not visible", "not attached"}, "scroll_to_element"),
       Rule({"intercepts pointer events", "intercepts"}, "wait"),
       Rule({"timeout", "timeout exceeded"}, "wait"),
       Rule({"page not loaded", "navigation timeout"}, "wait"),
       Rule({"invalid selector", "malformed selector"}, "alternative"),
       Rule({"outside viewport", "not in viewport"}, "scroll_to_element"),
       Rule({"element is disabled", "disabled"}, "wait"),
       Rule({"takes from 2 to 3 positional arguments"}, "scroll"),
       Rule({"not clickable", "element is not clickable", "cannot click"}, "scroll"),
       Rule({"element is hidden", "hidden", "display: none", "visibility: hidden"}, "wait"),
       Rule({"network error", "net::", "err_", "failed to fetch"}, "wait"),
       Rule({"detached", "element is not attached", "stale element"}, "wait"),
       Rule({"javascript error", "js error", "execution context", "evaluation failed"},
            "wait"),
       Rule({"iframe", "frame", "cross-origin"}, "alternative"),
       Rule({"unauthorized", "401", "403", "forbidden"}, "alternative"),
       Rule({"no response", "connection refused", "connection timeout"}, "wait") >>

\* ErrorPatternMatcher.get_solution
GetSolution(error, action) ==
    LET i == FirstMatch(PATTERNS, error)
    IN  IF i = 0 THEN [matched |-> FALSE, suggestion |-> NoSuggestion, strategy |-> ""]
        ELSE [matched |-> TRUE,
              suggestion |-> Suggestion(IF action = "extract_text"
                                        THEN "pattern and extract_text advice"
                                        ELSE "pattern advice", {}),
              strategy |-> PATTERNS[i].strategy]

\* _extract_strategy_from_suggestion
ExtractStrategyFromSuggestion(suggestion) ==
    LET has(word) == word \in suggestion.contains
    IN  IF has("search") THEN "use_search"
        ELSE IF has("scroll")
             THEN (IF has("and retry") THEN "scroll_and_retry"
                   ELSE IF has("to element") THEN "scroll_to_element" ELSE "scroll")
        ELSE IF has("alternative")
             THEN (IF has("description") THEN "alternative_description" ELSE "alternative")
        ELSE IF has("wait") THEN "wait"
        ELSE IF has("close") THEN "close_modals"
        ELSE "wait"

\* what _analyze_error returns: an analysis of the oracle, or its own text
\* when the oracle call raised
AnalysisFailed == Suggestion("analysis failed", {"scroll"})
Analyses ==
    { Suggestion("scroll down and retry", {"scroll", "and retry"}),
      Suggestion("use the search field", {"search"}),
      AnalysisFailed }

\* the context classes of _get_cache_key
ContextTypes == {"form", "normal"}

\* ErrorHandler._get_cache_key: the digest is taken as the data it is
\* computed from
GetErrorCacheKey(error, action, context_type) ==
    [action |-> action, error |-> error.text, context_type |-> context_type]

\* whether handle_error reaches _analyze_error
AsksOracle(cache, error, action, context_type, retry_count) ==
    /\ retry_count < MaxRetries
    /\ ~HeuristicErrorHandling(error, action).matched
    /\ ~GetSolution(error, action).matched
    /\ \A i \in 1..Len(cache) : cache[i].key # GetErrorCacheKey(error, action, context_type)

\* a handle_error that asks the oracle about every error
HandleErrorAlwaysAsking(cache, error, action, context_type, retry_count, analysis) ==
    [suggestion |-> analysis, strategy |-> ExtractStrategyFromSuggestion(analysis),
     tier |-> "oracle", cache |-> cache, oracle_calls |-> 1]

\* handle_error on a cache: what it returns, the cache afterwards and the
\* oracle calls it made
HandleErrorOn(cache, error, action, context_type, retry_count, analysis) ==
    LET heuristic_result == HeuristicErrorHandling(error, action)
        pattern_solution == GetSolution(error, action)
        cache_key == GetErrorCacheKey(error, action, context_type)
        cached == {i \in 1..Len(cache) : cache[i].key = cache_key}
        Returned(suggestion, strategy, tier, after, calls) ==
            [suggestion |-> suggestion, strategy |-> strategy, tier |-> tier,
             cache |-> after, oracle_calls |-> calls]
    IN  IF retry_count >= MaxRetries
        THEN Returned(Suggestion("retry limit", {}), "", "limit", cache, 0)
        ELSE IF heuristic_result.matched
        THEN Returned(heuristic_result.suggestion, heuristic_result.strategy, "heuristic",
                      cache, 0)
        ELSE IF pattern_solution.matched
        THEN Returned(pattern_solution.suggestion, pattern_solution.strategy, "pattern",
                      cache, 0)
        ELSE IF cached # {}
        THEN LET cached_solution == cache[CHOOSE i \in cached : TRUE]
             IN  Returned(cached_solution.suggestion, cached_solution.strategy, "cache",
                          cache, 0)
        ELSE LET strategy == ExtractStrategyFromSuggestion(analysis)
                 written == Append(cache, [key |-> cache_key, suggestion |-> analysis,
                                           strategy |-> strategy])
             IN  Returned(analysis, strategy, "oracle",
                          IF Len(written) > ErrorCacheLimit THEN Tail(written) ELSE written,
                          1)

ErrorActions == {"click_element", "extract_text", "navigate"}

\* handle_error is called; a call that writes the cache is taken while the
\* cache holds fewer than MaxCached entries
HandleErrorCalled ==
    /\ pc = "idle"
    /\ \E error \in ErrorTexts, action \in ErrorActions, context_type \in ContextTypes,
          retry_count \in {0, MaxRetries} :
          \E analysis \in IF AsksOracle(error_solution_cache, error, action, context_type,
                                        retry_count)
                           THEN Analyses ELSE {NoSuggestion} :
          \E returned \in {HandleErrorOn(error_solution_cache, error, action, context_type,
                                         retry_count, analysis)} :
             /\ returned.cache = error_solution_cache
                \/ Len(error_solution_cache) < MaxCached
             /\ error_solution_cache' = returned.cache
             /\ error_analysis' =
                    [called |-> TRUE, error |-> error, action |-> action,
                     context_type |-> context_type, retry_count |-> retry_count,
                     suggestion |-> returned.suggestion, strategy |-> returned.strategy,
                     tier |-> returned.tier, oracle_calls |-> returned.oracle_calls]
    /\ UNCHANGED <<loopVars, ctxVars, mgr_pc, last_verdict, qryVars, validation_cache,
                   validation, untrimmed, completion_check>>

ErrorNext == HandleErrorCalled

ErrorSpec == Init /\ [][ErrorNext]_vars

RecoveryStrategies ==
    {"scroll", "scroll_to_element", "wait", "alternative", "alternative_description",
     "close_overlays", "use_search"}

\* the error text matches no rule before the timeout rule, and matches it
TimeoutRuleApplies(error, action) ==
    /\ {"timeout", "timed out"} \cap error.contains # {}
    /\ ~ ( /\ {"not found", "element not found"} \cap error.contains # {}
           /\ action \in {"click_element", "extract_text", "type_text"} )

C26_StrategyInVocabulary ==
    (error_analysis.called /\ error_analysis.strategy # "")
    => error_analysis.strategy \in RecoveryStrategies

\* C27: the oracle is asked only when no rule matches and the cache has no
\* entry for the key of the error; a classification with the key of a cached
\* entry returns the suggestion and the strategy of the entry without an
\* oracle call.
C27_OracleOnlyOnMiss ==
    [][ error_analysis'.called /\ error_analysis' # error_analysis =>
          LET call == error_analysis'
              key == GetErrorCacheKey(call.error, call.action, call.context_type)
              entries == {i \in 1..Len(error_solution_cache) :
                             error_solution_cache[i].key = key}
              unmatched == /\ FirstMatch(HeuristicRules, call.error) = 0
                           /\ FirstMatch(PATTERNS, call.error) = 0
                           /\ "not found" \notin call.error.contains
          IN  /\ call.oracle_calls > 0 => (unmatched /\ entries = {})
              /\ (unmatched /\ entries # {} /\ call.retry_count < MaxRetries) =>
                    /\ call.oracle_calls = 0
                    /\ \E i \in entries :
                          /\ call.suggestion = error_solution_cache[i].suggestion
                          /\ call.strategy = error_solution_cache[i].strategy
                    /\ error_solution_cache' = error_solution_cache ]_vars

\* an error text that differs from a cached one in its digits was answered
\* from the cache
C27_Witness ==
    /\ error_analysis.called
    /\ error_analysis.tier = "cache"
    /\ error_analysis.error = UnknownErrorAgain
    /\ error_analysis.oracle_calls = 0
    /\ \E i \in 1..Len(error_solution_cache) :
          error_solution_cache[i].suggestion = error_analysis.suggestion

\* C28: a task_complete whose deep check got no structured verdict from the
\* oracle (the call raised, or the answer could not be parsed) is not
\* accepted: the session does not become Completed in that pass.
C28_FailedCheckRejects ==
    completion_check.reply \in {"raises", "text with done", "text"} =>
       (state # COMPLETED /\ ~result.success)

\* ------------------------------------------------- a second invocation
\* the collaborator calls of Observe, Decide and Act
CollaboratorCalls == {"observe", "decide", "completion_check", "act"}

\* execute_task is called while an earlier invocation is suspended in a
\* collaborator call: the new invocation runs up to its own first suspension
\* (set_task of both managers, the counter and the stop flag reset, the first
\* pass begun, the status Observing) and stays suspended there.
ExecuteTaskReentered ==
    /\ pc \in CollaboratorCalls
    /\ ~reentered
    /\ reentered' = TRUE
    /\ \E task \in Tasks :
          requirements' = ParseTaskRequirements(task, EmptyDict)
    /\ state' = OBSERVING
    /\ action_history' = <<>>
    /\ visited_urls' = <<>>
    /\ query_dom_history' = <<>>
    /\ iteration_count' = 0
    /\ last_error' = ""
    /\ progress_counters' = EmptyDict
    /\ current_iteration' = 1
    /\ should_stop' = FALSE
    /\ UNCHANGED <<pc, history, page, page_info, decision, result, oracle_calls,
                   backend_calls>>
    /\ UNCHANGED <<ctxVars, mgr_pc, last_verdict, subagent_calls, query_result, restarted,
                   svcVars, completion_check>>

ReentryNext == Next \/ ExecuteTaskReentered

ReentrySpec == Init /\ [][ReentryNext]_vars

\* C29: while execute_task is suspended in a collaborator call, no step
\* resets the action history, the visited URLs, the iteration counters or the
\* stop flag of its session.
C29_RunningSessionNotReset ==
    [][ (pc \in CollaboratorCalls /\ pc' = pc) =>
          /\ action_history' = action_history
          /\ visited_urls' = visited_urls
          /\ iteration_count' = iteration_count
          /\ current_iteration' = current_iteration
          /\ should_stop => should_stop' ]_vars

\* the status changes of a loop pass
PassTransitions ==
    {<<IDLE, OBSERVING>>, <<OBSERVING, DECIDING>>, <<DECIDING, ACTING>>,
     <<ACTING, REFLECTING>>, <<REFLECTING, OBSERVING>>}

\* C30: a status change during execute_task is a step of the cycle Observing,
\* Deciding, Acting, Reflecting, Observing (or the first Observing), or leads
\* to Completed or Error; the completion check of a task_complete runs in the
\* status Acting; the status is never WaitingUser.
C30_StatusFollowsPhases ==
    [][ /\ state' # state =>
              (<<state, state'>> \in PassTransitions \/ state' \in {COMPLETED, ERROR})
        /\ state' # WAITING_USER
        /\ pc' = "completion_check" => state' = ACTING ]_vars


\* ------------------------------------ the decision-prompt history: specification
\* the estimated cost of a short and of a long history record
ShortTokens == 300
LongTokens == 2100

\* what execute_task calls add_to_history with: the labels it builds from
\* the name and the parameters of the decision, the label of a rejected
\* completion, and the results
HistoryInputs ==
    { [action |-> <<"navigate", "B">>, result |-> [success |-> FALSE, tokens |-> ShortTokens]],
      [action |-> <<"click_element", "submit">>,
       result |-> [success |-> TRUE, tokens |-> ShortTokens]],
      [action |-> <<"click_element", "submit">>,
       result |-> [success |-> FALSE, tokens |-> ShortTokens]],
      [action |-> <<"task_complete_rejected">>,
       result |-> [success |-> FALSE, tokens |-> ShortTokens]],
      [action |-> <<"extract_text", "p">>,
       result |-> [success |-> TRUE, tokens |-> LongTokens]] }

\* ContextManager.add_to_history is called: the record is appended and the
\* history is trimmed
AddToHistoryCalled ==
    /\ pc = "idle"
    /\ \E input \in HistoryInputs :
          /\ untrimmed' = Append(history, HistoryRecord(input.action, input.result))
          /\ history' = AddToHistory(history, input.action, input.result)
    /\ UNCHANGED <<pc, state, action_history, visited_urls, iteration_count, last_error,
                   current_iteration, should_stop, requirements, progress_counters, page,
                   page_info, decision, result, oracle_calls, backend_calls>>
    /\ UNCHANGED <<ctxVars, mgr_pc, last_verdict, qryVars, validation_cache, validation,
                   error_solution_cache, error_analysis, completion_check>>

HistoryNext == AddToHistoryCalled

HistorySpec == Init /\ [][HistoryNext]_vars

\* ------------------------------------------- the decision-prompt history: claims
\* the important records: navigation, successful interaction, successful
\* extraction and completion; scrolling, waiting and failed attempts that are
\* no navigation are the less important ones
ImportantRecord(r) ==
    \/ r.action[1] \in {"navigate", "task_complete"}
    \/ (r.success /\ r.action[1] \notin {"scroll", "wait_for_element"})

\* C31: when add_to_history trims the history and the important records
\* together with the last five less important ones fit the history budget,
\* the history retains every important record (every navigation, successful
\* interaction, successful extraction and completion).
C31_ImportantRecordsRetained ==
    LET important == SelectSeq(untrimmed, ImportantRecord)
        less_important == SelectSeq(untrimmed, LAMBDA r : ~ImportantRecord(r))
    IN  ( /\ HistoryTokens(untrimmed) > MAX_HISTORY_TOKENS
          /\ HistoryTokens(important \o LastN(less_important, 5)) <= MAX_HISTORY_TOKENS )
        => SelectSeq(history, ImportantRecord) = important

\* whether the records of sub occur in full in the same order
RECURSIVE IsSubsequence(_, _)
IsSubsequence(sub, full) ==
    IF sub = <<>> THEN TRUE
    ELSE IF full = <<>> THEN FALSE
    ELSE IF Head(sub) = Head(full) THEN IsSubsequence(Tail(sub), Tail(full))
    ELSE IsSubsequence(sub, Tail(full))

\* C39: after add_to_history the history is an order-preserving subsequence
\* of the records in the order they were added: trimming removes records but
\* never reorders the ones it keeps.
C39_TrimmingKeepsOrder == IsSubsequence(history, untrimmed)

\* C40: after add_to_history returns, the estimated token cost of the history
\* is at most MAX_HISTORY_TOKENS, also for a single record that alone exceeds
\* the budget.
C40_HistoryWithinBudget == HistoryTokens(history) <= MAX_HISTORY_TOKENS

\* ------------------------------------------- the state manager: further claims
\* whether a record carries a page diff
CarriesDiff(r) == r.page_changed \/ GetActionSignature(r).has_new_elements

\* C32: the consecutive-repeat check gives a verdict only when the same
\* (action, parameters) signature occurs back-to-back at least threshold times
\* (2 for navigate and click_element, 3 otherwise) and none of the counted
\* occurrences carries a page diff.
C32_RepeatsCountedWithoutDiff ==
    (mgr_pc = "detected" /\ last_verdict.check = "consecutive") =>
        LET recent == LastN(action_history, 6)
            n == last_verdict.repeats
        IN  \E i \in 1..Len(recent) :
               /\ i >= n
               /\ n >= (IF recent[i].action \in {"navigate", "click_element"}
                        THEN 2 ELSE 3)
               /\ \A j \in (i - n + 1)..i :
                     /\ recent[j].action = recent[i].action
                     /\ recent[j].parameters = recent[i].parameters
                     /\ ~CarriesDiff(recent[j])

\* C33: detect_loop reports a repeating failure only when the identical
\* failing records (same action, parameters and error message, no page diff)
\* are consecutive in the history.
C33_RepeatingFailureConsecutive ==
    (mgr_pc = "detected" /\ last_verdict.check = "errors") =>
        LET recent == LastN(action_history, Lookback)
        IN  \E i \in 1..(Len(recent) - 1) :
               /\ ~recent[i].result.success
               /\ ~recent[i + 1].result.success
               /\ recent[i].result.error = recent[i + 1].result.error
               /\ recent[i].action = recent[i + 1].action
               /\ recent[i].parameters = recent[i + 1].parameters
               /\ ~CarriesDiff(recent[i])
               /\ ~CarriesDiff(recent[i + 1])

\* ------------------------------------------------- the session: further claims
\* C34: while execute_task is deciding, checking a completion or acting,
\* detect_loop gives no verdict on the current action history: the session
\* never decides or acts on a history that holds a detectable loop.
C34_NoDecisionOnLoopingHistory ==
    pc \in {"decide", "completion_check", "act"} => ~DetectLoop(action_history).detected

\* an action is executed in the third pass, on a history of two records
C34_Witness ==
    /\ pc = "act"
    /\ Len(action_history) = 2
    /\ backend_calls = 3

\* every pass so far ended with a task_complete decision that was rejected
\* because a requirement is unmet
AllPassesRejected ==
    /\ current_iteration >= 1
    /\ ~CanCompleteTask(requirements, progress_counters)
    /\ Len(history) = current_iteration
    /\ \A i \in 1..Len(history) : history[i].action = <<"task_complete_rejected">>

\* C35: a rejected task_complete executes no action and appends no record to
\* the action history; a run in which every pass ends with such a rejection
\* never ends with a loop verdict and returns the iteration-limit failure
\* after exactly max_iterations decisions of the oracle.
C35_RejectionsExhaustTheBudget ==
    AllPassesRejected =>
        /\ action_history = <<>>
        /\ backend_calls = 0
        /\ (pc = "returned" /\ ~should_stop) =>
              /\ result.reason = "max_iterations"
              /\ ~result.success
              /\ ~result.loop_info.detected
              /\ oracle_calls = MaxIterations

\* the run of rejections has returned on the iteration limit
C35_Witness ==
    /\ pc = "returned"
    /\ AllPassesRejected
    /\ ~should_stop
    /\ Len(history) = MaxIterations
    /\ result.reason = "max_iterations"

\* C36: if stop() was called between the start of the loop and the return of
\* execute_task, the returned result does not have success = true.
C36_StoppedSessionNotCompleted ==
    (pc = "returned" /\ should_stop) => ~result.success

\* a step that is a query_dom pass
QueryDomStep ==
    /\ pc = "loop" /\ pc' = "loop"
    /\ Len(query_dom_history') = Len(query_dom_history) + 1

\* C37: once a query_dom with the text q is among the last 10 recorded
\* queries, a query_dom with the identical text q returns the recorded answer
\* from the cache and the DOM sub-agent is not called.
C37_IdenticalQueryServedFromCache ==
    [][ ( /\ QueryDomStep
          /\ \E i \in 1..Len(LastN(query_dom_history, 10)) :
                LastN(query_dom_history, 10)[i].query = decision'.parameters.query )
        => ( /\ query_result'.from_cache
             /\ subagent_calls' = subagent_calls
             /\ \E i \in 1..Len(LastN(query_dom_history, 10)) :
                   /\ LastN(query_dom_history, 10)[i].query = decision'.parameters.query
                   /\ LastN(query_dom_history, 10)[i].answer = query_result'.answer ) ]_vars

\* C38: a query_dom is answered from the recorded queries only if the
\* matching record was recorded on the URL of the page the query is now
\* executed on.
C38_CacheHitOnSamePageOnly ==
    [][ (QueryDomStep /\ query_result'.from_cache)
        => \E i \in 1..Len(LastN(query_dom_history, 10)) :
              /\ LastN(query_dom_history, 10)[i].normalized_query
                     = NormalizeQueryForComparison(decision'.parameters.query)
              /\ LastN(query_dom_history, 10)[i].url = page.url ]_vars

====
